---- MODULE Spec2Model ----
(***************************************************************************)
(* Layout engine (src/utils/collisionDetection.ts) and application state   *)
(* machine (src/app/page.tsx, src/unnamed/part_002) of the 3D node network *)
(* viewer.                                                                 *)
(*                                                                         *)
(* Numbers are fixed point: one world unit is Scale model units, so 0.8    *)
(* is 80.  Math.sqrt is the integer square root, Math.cos / Math.sin are   *)
(* read from a table in steps of pi/48 scaled by TrigScale, and a quotient *)
(* that is compared with a margin is carried to three decimals.            *)
(* Math.random() is the n-th element of a stream chosen by a seed.         *)
(***************************************************************************)
EXTENDS Integers, Sequences, FiniteSets, TLC

(***************************************************************************)
(* Numbers                                                                 *)
(***************************************************************************)
Scale == 100
TrigScale == 10000
Milli == 1000

Abs(a) == IF a < 0 THEN -a ELSE a
Max(a, b) == IF a >= b THEN a ELSE b
Min(a, b) == IF a <= b THEN a ELSE b

\* a / b rounded to the nearest integer, b > 0
RDiv(a, b) == (2 * a + b) \div (2 * b)

RECURSIVE SqrtIter(_, _)
SqrtIter(n, g) ==
  LET h == (g + n \div g) \div 2
  IN  IF h >= g THEN g ELSE SqrtIter(n, h)

\* Math.sqrt: floor of the square root (Newton from a guess above the root)
Sqrt(n) ==
  IF n <= 0 THEN 0
  ELSE SqrtIter(n, IF n < 256 THEN 16
                   ELSE IF n < 65536 THEN 256
                   ELSE IF n < 16777216 THEN 4096
                   ELSE 46340)

\* cos(k * pi / 48) * TrigScale for k = 0 .. 24
QuarterCos ==
  << 10000, 9979, 9914, 9808, 9659, 9469, 9239, 8969, 8660, 8315, 7934, 7518,
     7071, 6593, 6088, 5556, 5000, 4423, 3827, 3214, 2588, 1951, 1305, 654, 0 >>

\* Math.cos and Math.sin of k * pi / 48, times TrigScale
Cos(k) ==
  LET m == k % 96
  IN  IF m <= 24 THEN QuarterCos[m + 1]
      ELSE IF m <= 48 THEN -QuarterCos[48 - m + 1]
      ELSE IF m <= 72 THEN -QuarterCos[m - 48 + 1]
      ELSE QuarterCos[96 - m + 1]

Sin(k) == Cos(k + 72)

\* Math.random() * 100: the n-th draw of the stream that seed selects
RandomTable == << 0, 25, 50, 75, 99 >>
Random(seed, n) == RandomTable[((seed + n * (seed + 1)) % 5) + 1]

\* (Math.random() - 0.5) * 0.2 in model units
Jitter(seed, n) == ((Random(seed, n) - 50) * 20) \div 100

\* floor(num / det * Milli), clamped to +-QuotClamp, by long division
QuotClamp == 100
Quot(num, det) ==
  LET s  == IF det < 0 THEN -1 ELSE 1
      n  == s * num
      d  == s * det
      q  == n \div d
      r0 == n % d
      d1 == (r0 * 10) \div d
      r1 == (r0 * 10) % d
      d2 == (r1 * 10) \div d
      r2 == (r1 * 10) % d
      d3 == (r2 * 10) \div d
  IN  IF q >= QuotClamp THEN QuotClamp * Milli
      ELSE IF q < -QuotClamp THEN -QuotClamp * Milli
      ELSE q * Milli + d1 * 100 + d2 * 10 + d3

(***************************************************************************)
(* Geometry primitives (collisionDetection.ts)                             *)
(***************************************************************************)
Pos(px, py, pz) == [x |-> px, y |-> py, z |-> pz]
Origin == Pos(0, 0, 0)

distance3D(pos1, pos2) ==
  Sqrt((pos1.x - pos2.x) * (pos1.x - pos2.x)
       + (pos1.y - pos2.y) * (pos1.y - pos2.y)
       + (pos1.z - pos2.z) * (pos1.z - pos2.z))

distanceFromCenter(pos) == Sqrt(pos.x * pos.x + pos.y * pos.y + pos.z * pos.z)

\* distance3D(pos1, pos2) >= d, decided on the squares (d >= 0 is an integer,
\* so the floor of the root is at least d exactly when the square is)
atLeastApart(pos1, pos2, d) ==
  (pos1.x - pos2.x) * (pos1.x - pos2.x)
  + (pos1.y - pos2.y) * (pos1.y - pos2.y)
  + (pos1.z - pos2.z) * (pos1.z - pos2.z) >= d * d

\* |det| below 0.0001 square world units: parallel
detEpsilon == 1

doLinesIntersect(line1Start, line1End, line2Start, line2End, buffer) ==
  LET det == (line1End.x - line1Start.x) * (line2End.y - line2Start.y)
             - (line2End.x - line2Start.x) * (line1End.y - line1Start.y)
      lnum == (line2End.y - line2Start.y) * (line2End.x - line1Start.x)
              + (line2Start.x - line2End.x) * (line2End.y - line1Start.y)
      gnum == (line1Start.y - line1End.y) * (line2End.x - line1Start.x)
              + (line1End.x - line1Start.x) * (line2End.y - line1Start.y)
      len1 == Sqrt((line1End.x - line1Start.x) * (line1End.x - line1Start.x)
                   + (line1End.y - line1Start.y) * (line1End.y - line1Start.y))
      len2 == Sqrt((line2End.x - line2Start.x) * (line2End.x - line2Start.x)
                   + (line2End.y - line2Start.y) * (line2End.y - line2Start.y))
      bufferMargin == (buffer * Milli) \div Max(Max(len1, len2), 1)
      lambda == Quot(lnum, det)
      gamma == Quot(gnum, det)
  IN  IF Abs(det) < detEpsilon THEN FALSE
      ELSE /\ lambda > -bufferMargin
           /\ lambda < Milli + bufferMargin
           /\ gamma > -bufferMargin
           /\ gamma < Milli + bufferMargin

\* node ids: 0 is the center node, NoId is an id that was not supplied
NoId == -1
lineBuffer == 50

\* a line is [start, end, startNodeId, endNodeId]
LineSkipped(line, proposedStartNodeId, proposedEndNodeId) ==
  /\ proposedStartNodeId # NoId
  /\ proposedEndNodeId # NoId
  /\ \/ line.startNodeId = proposedStartNodeId
     \/ line.startNodeId = proposedEndNodeId
     \/ line.endNodeId = proposedStartNodeId
     \/ line.endNodeId = proposedEndNodeId

wouldLineIntersect(proposedStart, proposedEnd, existingLines, proposedStartNodeId, proposedEndNodeId) ==
  \E i \in 1..Len(existingLines) :
     /\ ~LineSkipped(existingLines[i], proposedStartNodeId, proposedEndNodeId)
     /\ doLinesIntersect(proposedStart, proposedEnd,
                         existingLines[i].start, existingLines[i].end, lineBuffer)

minGenerationGap == 80

\* a correction that returns every candidate as it is
keepCandidate(candidatePos, parentPos, minGap) == candidatePos

\* a correction that moves every candidate to the required distance
pushToRequired(candidatePos, parentPos, minGap) ==
  LET Scaled(requiredDistanceFromCenter, length) ==
        IF length = 0 THEN Pos(requiredDistanceFromCenter, 0, 0)
        ELSE Pos(RDiv(candidatePos.x * requiredDistanceFromCenter, length),
                 RDiv(candidatePos.y * requiredDistanceFromCenter, length),
                 RDiv(candidatePos.z * requiredDistanceFromCenter, length))
  IN  Scaled(distanceFromCenter(parentPos) + minGap, distanceFromCenter(candidatePos))

enforceHierarchicalDistance(candidatePos, parentPos, minGap) ==
  LET fromParent == Pos(candidatePos.x - parentPos.x,
                        candidatePos.y - parentPos.y,
                        candidatePos.z - parentPos.z)
      Scaled(pos, requiredDistanceFromCenter, length) ==
        Pos(RDiv(pos.x * requiredDistanceFromCenter, length),
            RDiv(pos.y * requiredDistanceFromCenter, length),
            RDiv(pos.z * requiredDistanceFromCenter, length))
      AlongParent(requiredDistanceFromCenter, parentDirection) ==
        IF parentDirection > 0
        THEN Scaled(fromParent, requiredDistanceFromCenter, parentDirection)
        ELSE Pos(requiredDistanceFromCenter, 0, 0)
      Corrected(requiredDistanceFromCenter, currentDistance) ==
        IF currentDistance >= requiredDistanceFromCenter
        THEN candidatePos
        ELSE IF currentDistance = 0
        THEN AlongParent(requiredDistanceFromCenter, distanceFromCenter(fromParent))
        ELSE Scaled(candidatePos, requiredDistanceFromCenter, currentDistance)
  IN  Corrected(distanceFromCenter(parentPos) + minGap, distanceFromCenter(candidatePos))

(***************************************************************************)
(* Position search: findSafePosition                                       *)
(***************************************************************************)
glowBuffer == 60
attempts == 32
growthStart == 50
growthStep == 30
growthLimit == 400

\* a loop over the radii that makes one turn too many
RingsOneMore(offset) == 2 + (growthLimit - 1 - offset) \div growthStep

\* number of radii of the loop
\* for (distance = base + 0.5; distance < base + 4.0; distance += 0.3)
RECURSIVE RingsFrom(_)
RingsFrom(offset) == IF offset < growthLimit THEN 1 + RingsFrom(offset + growthStep) ELSE 0
grownRadii == RingsFrom(growthStart)

\* the radius of the samples of ring r (ring 0 is the loop at baseDistance)
SampleRadius(baseDistance, ring) ==
  IF ring = 0 THEN baseDistance
  ELSE baseDistance + growthStart + growthStep * (ring - 1)

\* sample i of a ring: angle i * 2 pi / attempts around the parent, z jittered
SamplePos(parentPos, z, radius, i, jitter) ==
  Pos(parentPos.x + RDiv(Cos(i * (96 \div attempts)) * radius, TrigScale),
      parentPos.y + RDiv(Sin(i * (96 \div attempts)) * radius, TrigScale),
      z + jitter)

\* a test of the candidate that leaves the collision check out
IsSafeLinesOnly(parentPos, pos, existingPositions, existingLines, effectiveMinDistance, parentNodeId, currentNodeId) ==
  ~wouldLineIntersect(parentPos, pos, existingLines, parentNodeId, currentNodeId)

\* noCollision && noIntersection of findSafePosition
IsSafe(parentPos, pos, existingPositions, existingLines, effectiveMinDistance, parentNodeId, currentNodeId) ==
  /\ \A i \in 1..Len(existingPositions) :
        atLeastApart(pos, existingPositions[i], effectiveMinDistance)
  /\ ~wouldLineIntersect(parentPos, pos, existingLines, parentNodeId, currentNodeId)

\* direction.c / length || dflt, times TrigScale
NormalizedOr(c, length, dflt) ==
  IF length = 0 \/ c = 0 THEN dflt * TrigScale ELSE RDiv(c * TrigScale, length)

\* the fallback of findSafePosition, before its final hierarchical correction
fallbackPos(parentPos, hierarchicalPos, baseDistance, effectiveMinDistance) ==
  LET direction == Pos(hierarchicalPos.x - parentPos.x,
                       hierarchicalPos.y - parentPos.y,
                       hierarchicalPos.z - parentPos.z)
      length == distanceFromCenter(direction)
      reach == baseDistance + effectiveMinDistance * 2
  IN  Pos(parentPos.x + RDiv(NormalizedOr(direction.x, length, 1) * reach, TrigScale),
          parentPos.y + RDiv(NormalizedOr(direction.y, length, 0) * reach, TrigScale),
          parentPos.z + RDiv(NormalizedOr(direction.z, length, 0) * reach, TrigScale))

\* The result is [pos, via, examined]: the position returned, the step that
\* returned it (1: corrected preferred position, 2: a sample at baseDistance,
\* 3: a sample at a grown radius, 4: the fallback) and the number of candidates
\* examined.  Sample number k (from 0) reads draw n0 + k of the random stream.
findSafePosition(parentPos, preferredPos, existingPositions, existingLines, minDistance, currentNodeId, parentNodeId, seed, n0) ==
  LET effectiveMinDistance == minDistance + glowBuffer
      total == attempts * (1 + grownRadii)
      Safe(pos) == IsSafe(parentPos, pos, existingPositions, existingLines,
                          effectiveMinDistance, parentNodeId, currentNodeId)
      Sample(hierarchicalPos, baseDistance, k) ==
        enforceHierarchicalDistance(
          SamplePos(parentPos, hierarchicalPos.z,
                    SampleRadius(baseDistance, k \div attempts),
                    k % attempts, Jitter(seed, n0 + k)),
          parentPos, minGenerationGap)
      \* first safe sample number of a ring from sample i on, or -1
      RECURSIVE FirstSafe(_, _, _, _)
      FirstSafe(hierarchicalPos, baseDistance, ring, i) ==
        IF i >= attempts THEN -1
        ELSE IF Safe(Sample(hierarchicalPos, baseDistance, ring * attempts + i))
        THEN ring * attempts + i
        ELSE FirstSafe(hierarchicalPos, baseDistance, ring, i + 1)
      RECURSIVE Search(_, _, _, _)
      \* k is the first safe sample number of the ring, or -1
      Search(hierarchicalPos, baseDistance, ring, k) ==
        IF ring > grownRadii
        THEN [pos |-> enforceHierarchicalDistance(
                        fallbackPos(parentPos, hierarchicalPos, baseDistance,
                                    effectiveMinDistance),
                        parentPos, minGenerationGap),
              via |-> 4, examined |-> 1 + total]
        ELSE IF k >= 0
        THEN [pos |-> Sample(hierarchicalPos, baseDistance, k),
              via |-> IF ring = 0 THEN 2 ELSE 3,
              examined |-> k + 2]
        ELSE Search(hierarchicalPos, baseDistance, ring + 1,
                    IF ring + 1 > grownRadii THEN -1
                    ELSE FirstSafe(hierarchicalPos, baseDistance, ring + 1, 0))
      From(hierarchicalPos, baseDistance) ==
        IF Safe(hierarchicalPos)
        THEN [pos |-> hierarchicalPos, via |-> 1, examined |-> 1]
        ELSE Search(hierarchicalPos, baseDistance, 0,
                    FirstSafe(hierarchicalPos, baseDistance, 0, 0))
      Corrected(hierarchicalPos) ==
        From(hierarchicalPos,
             Max(distance3D(parentPos, hierarchicalPos), effectiveMinDistance))
  IN  Corrected(enforceHierarchicalDistance(preferredPos, parentPos, minGenerationGap))

(***************************************************************************)
(* Radial arranger: arrangeChildrenAroundParent                            *)
(***************************************************************************)
angleAttempts == 16
collisionPenalty == 1000
intersectionPenalty == 2000
\* Number.POSITIVE_INFINITY, above every score
InfiniteScore == 1000000000
\* 2.2 * Math.PI and Math.PI / 8 * 10, times Milli
TwoPointTwoPi == 6912
TieBreak == 3927

arrangeRadius(parentPos, numChildren, baseRadius, minDistance) ==
  LET effectiveMinDistance == minDistance + glowBuffer
      Radius(parentDistanceFromCenter) ==
        Max(Max(baseRadius,
                (parentDistanceFromCenter + minGenerationGap) - parentDistanceFromCenter),
            RDiv(numChildren * effectiveMinDistance * Milli, TwoPointTwoPi))
  IN  Radius(distanceFromCenter(parentPos))

\* candidate angleAttempt of child i (from 0): [pos, score], score times Milli
arrangeCandidate(parentPos, i, numChildren, childId, existingPositions, childPositions, existingLines, radius, minDistance, parentNodeId, seed, n0, angleAttempt) ==
  LET effectiveMinDistance == minDistance + glowBuffer
      finalAngle == RDiv(i * 96, numChildren) + angleAttempt * 6
      finalRadius == radius + Jitter(seed, n0 + 2 * angleAttempt)
      hasCollision(candidatePos) ==
        \/ \E j \in 1..Len(existingPositions) :
              ~atLeastApart(candidatePos, existingPositions[j], effectiveMinDistance)
        \/ \E j \in 1..Len(childPositions) :
              ~atLeastApart(candidatePos, childPositions[j], effectiveMinDistance)
      hasIntersection(candidatePos) ==
        wouldLineIntersect(parentPos, candidatePos, existingLines, parentNodeId, childId)
      Scored(candidatePos, penalty) ==
        [pos |-> candidatePos,
         penalty |-> penalty,
         score |-> penalty * Milli + angleAttempt * TieBreak]
      Candidate(candidatePos) ==
        Scored(candidatePos,
               (IF hasCollision(candidatePos) THEN collisionPenalty ELSE 0)
               + (IF hasIntersection(candidatePos) THEN intersectionPenalty ELSE 0))
  IN  Candidate(enforceHierarchicalDistance(
                  Pos(parentPos.x + RDiv(Cos(finalAngle) * finalRadius, TrigScale),
                      parentPos.y + RDiv(Sin(finalAngle) * finalRadius, TrigScale),
                      parentPos.z + Jitter(seed, n0 + 2 * angleAttempt + 1)),
                  parentPos, minGenerationGap))

\* an angleAttempt loop that rejects every candidate with a penalty
bestCandidateRejecting(parentPos, i, numChildren, childId, existingPositions, childPositions, existingLines, radius, minDistance, parentNodeId, seed, n0) ==
  LET Cand(a) == arrangeCandidate(parentPos, i, numChildren, childId,
                                  existingPositions, childPositions, existingLines,
                                  radius, minDistance, parentNodeId, seed, n0, a)
      RECURSIVE Loop(_)
      Loop(a) ==
        IF a >= angleAttempts
        THEN [found |-> FALSE, pos |-> Origin, score |-> InfiniteScore,
              penalty |-> 0, tried |-> angleAttempts]
        ELSE LET Keep(c) ==
                   IF c.penalty = 0
                   THEN [found |-> TRUE, pos |-> c.pos, score |-> c.score,
                         penalty |-> 0, tried |-> a + 1]
                   ELSE Loop(a + 1)
             IN  Keep(Cand(a))
  IN  Loop(0)

\* the angleAttempt loop for child i: [found, pos, score, tried]
bestCandidate(parentPos, i, numChildren, childId, existingPositions, childPositions, existingLines, radius, minDistance, parentNodeId, seed, n0) ==
  LET Cand(a) == arrangeCandidate(parentPos, i, numChildren, childId,
                                  existingPositions, childPositions, existingLines,
                                  radius, minDistance, parentNodeId, seed, n0, a)
      Better(a, best, c) ==
        IF c.score < best.score
        THEN [found |-> TRUE, pos |-> c.pos, score |-> c.score,
              penalty |-> c.penalty, tried |-> a + 1]
        ELSE [best EXCEPT !.tried = a + 1]
      RECURSIVE Loop(_, _)
      Loop(a, best) ==
        IF a >= angleAttempts THEN best
        ELSE LET Scored(c) ==
                   IF c.penalty = 0 THEN Better(a, best, c)
                   ELSE Loop(a + 1, Better(a, best, c))
             IN  Scored(Cand(a))
  IN  Loop(0, [found |-> FALSE, pos |-> Origin, score |-> InfiniteScore,
               penalty |-> 0, tried |-> 0])

\* One pass of the loop over the children (child i, from 0): the position
\* sequence with the child's position pushed (or not, when no candidate was
\* kept), the result of the position search and the draws consumed.
arrangeChild(parentPos, i, numChildren, childId, existingPositions, childPositions, existingLines, baseRadius, minDistance, parentNodeId, seed, n0) ==
  LET Pushed(best, n1, safe) ==
        IF best.found
        THEN [childPositions |-> Append(childPositions, safe.pos),
              called |-> TRUE, best |-> best, safe |-> safe,
              draws |-> n1 + safe.examined - 1]
        ELSE [childPositions |-> childPositions,
              called |-> FALSE, best |-> best, safe |-> safe, draws |-> n1]
      Searched(best, n1) ==
        Pushed(best, n1,
               findSafePosition(parentPos, best.pos,
                                existingPositions \o childPositions, existingLines,
                                minDistance, childId, parentNodeId, seed, n1))
      Chosen(best) == Searched(best, n0 + 2 * best.tried)
  IN  Chosen(bestCandidate(parentPos, i, numChildren, childId, existingPositions,
                           childPositions, existingLines,
                           arrangeRadius(parentPos, numChildren, baseRadius, minDistance),
                           minDistance, parentNodeId, seed, n0))

(***************************************************************************)
(* The node tree                                                           *)
(*                                                                         *)
(* Nodes are numbered; node 0 is the center node and kids[n + 1] is the    *)
(* ordered children list of node n (kids[1] is the list of top-level       *)
(* nodes).  Every node has a children list, possibly empty.                *)
(***************************************************************************)
CenterId == 0

ChildrenOf(k, n) == k[n + 1]
NodesOf(k) == 0..(Len(k) - 1)

ParentOf(k, n) == CHOOSE p \in NodesOf(k) : \E i \in 1..Len(ChildrenOf(k, p)) : ChildrenOf(k, p)[i] = n

RECURSIVE AncestorsOf(_, _)
AncestorsOf(k, n) ==
  IF n = CenterId THEN {} ELSE {ParentOf(k, n)} \cup AncestorsOf(k, ParentOf(k, n))

\* depth below the center: 1 for a top-level node
DepthOf(k, n) == Cardinality(AncestorsOf(k, n))

(***************************************************************************)
(* State                                                                   *)
(***************************************************************************)
VARIABLES
  kids,          \* the shape of the tree
  position,      \* node -> stored position (networkState, or the tree of the pass)
  expanded,      \* node -> expanded flag
  input,         \* [kids, position, expanded] of the tree when the pass began
  allPositions,  \* accumulated positions, each with the node it was pushed for
  allLines,      \* accumulated edges
  stack,         \* call stack of the pass, innermost call last
  seed,          \* selects the stream Math.random() reads
  draws,         \* number of Math.random() calls made so far
  last,          \* the latest call of findSafePosition and its result
  pc,            \* "pass", "done" or "error" (a TypeError was thrown)
  variant,       \* which of the two page components runs: "A" or "B"
  isAllExpanded,
  isFilterActive,
  needsRepositioning,
  layoutCache,   \* cache key -> cached layout, or NoLayout
  gestures,      \* number of handlers run so far
  history,       \* the handler that ran last and the layout it started from
  memory,        \* the objects the page holds: the trees of its state and of its cache
  call,          \* a function called on its own: its arguments and its results
  selection,     \* the filter criteria: selected protocols, income types, search term
  focus,         \* the focused node, the zoom flag, the breadcrumbs, the pending timers
  pointer        \* a node sphere's pointer gesture and the callbacks it has invoked

passVars == << position, allPositions, allLines, stack, draws, last, pc >>
appVars == << variant, isAllExpanded, isFilterActive, needsRepositioning, layoutCache,
              gestures, history, memory, call, selection, focus,
     pointer >>
vars == << kids, position, expanded, input, allPositions, allLines, stack,
           seed, draws, last, pc, variant, isAllExpanded, isFilterActive,
           needsRepositioning, layoutCache, gestures, history, memory, call, selection, focus,
     pointer >>

(***************************************************************************)
(* Tree repositioner: repositionNodesWithCollisionDetection                *)
(***************************************************************************)
topLevelMinDist == 280
deepMinDist == 140
arrangeBaseRadius == 170
arrangeRadiusPerLevel == 20
arrangeMinDist == 130
arrangeMinDistPerLevel == 15

\* a separation that grows with the level below the top level
minDistByLevel(level) ==
  IF level = 0 THEN topLevelMinDist ELSE deepMinDist + level * arrangeMinDistPerLevel

\* const minDist = isTopLevel ? 2.8 : 1.4
minDist(level) == IF level = 0 THEN topLevelMinDist ELSE deepMinDist

PositionsOf(acc) == [i \in 1..Len(acc) |-> acc[i].pos]

Frame(node, phase, parentPos, level, parentNodeId) ==
  [node |-> node, phase |-> phase, parentPos |-> parentPos, level |-> level,
   parentNodeId |-> parentNodeId, i |-> 0, childPositions |-> << >>]

Top(st) == st[Len(st)]
Pop(st) == SubSeq(st, 1, Len(st) - 1)
ReplaceTop(st, f) == Append(Pop(st), f)

\* a forEach that has visited all its elements returns to its caller
RECURSIVE Unwind(_, _)
Unwind(st, k) ==
  IF st = << >> THEN st
  ELSE IF Top(st).phase \in {"forEachChild", "forEachNode"}
          /\ Top(st).i >= Len(ChildrenOf(k, Top(st).node))
       THEN Unwind(Pop(st), k)
       ELSE st

PcAfter(st) == IF st = << >> THEN "done" ELSE "pass"

\* the call of findSafePosition in repositionNodeAndChildren
placeNode(f, pos, acc, lines, sd, n0) ==
  findSafePosition(f.parentPos, pos[f.node], PositionsOf(acc), lines,
                   minDist(f.level), f.node, f.parentNodeId, sd, n0)

\* an assignment that moves the center node along with the node
setPositionAndCenter(pos, node, p) == [pos EXCEPT ![node] = p, ![CenterId] = p]

\* an assignment that stores the offset from the parent's stored position
setPositionRelative(pos, node, p) ==
  [pos EXCEPT ![node] = Pos(p.x - pos[ParentOf(kids, node)].x,
                            p.y - pos[ParentOf(kids, node)].y,
                            p.z - pos[ParentOf(kids, node)].z)]

\* node.position = safePosition
setPosition(pos, node, p) == [pos EXCEPT ![node] = p]

\* allLines.push({start, end, startNodeId: parentNodeId || centerNode.id, endNodeId})
pushLine(lines, start, end, parentNodeId, node) ==
  Append(lines, [start |-> start, end |-> end,
                 startNodeId |-> IF parentNodeId = NoId THEN CenterId ELSE parentNodeId,
                 endNodeId |-> node])

pushPosition(acc, p, node) == Append(acc, [pos |-> p, owner |-> node])

\* a test of the children that does not read the expanded flag
hasChildren(k, exp, node) == Len(ChildrenOf(k, node)) > 0

\* node.children && node.expanded && node.children.length > 0
hasLayoutChildren(k, exp, node) == exp[node] /\ Len(ChildrenOf(k, node)) > 0

LastCall(f, node, preferred, existing, lines, minDistance, parentId, r) ==
  [node |-> node, parentPos |-> f.parentPos, preferred |-> preferred,
   existing |-> existing, lines |-> lines, minDistance |-> minDistance,
   parentNodeId |-> parentId, pos |-> r.pos, via |-> r.via, examined |-> r.examined]

\* the state of a pass: the positions it writes, its accumulators and its stack
PassState ==
  [position |-> position, allPositions |-> allPositions, allLines |-> allLines,
   stack |-> stack, draws |-> draws, last |-> last, pc |-> pc]

\* repositionNodeAndChildren up to the test of node.children (lines 435-459)
placeStep(s, k, exp, sd) ==
  LET f == Top(s.stack)
      st == IF hasLayoutChildren(k, exp, f.node)
            THEN ReplaceTop(s.stack, [f EXCEPT !.phase = "arrange"])
            ELSE Unwind(Pop(s.stack), k)
      Stored(r) ==
        [position |-> setPosition(s.position, f.node, r.pos),
         allPositions |-> pushPosition(s.allPositions, r.pos, f.node),
         allLines |-> pushLine(s.allLines, f.parentPos, r.pos, f.parentNodeId, f.node),
         stack |-> st,
         draws |-> s.draws + r.examined - 1,
         last |-> LastCall(f, f.node, s.position[f.node], PositionsOf(s.allPositions),
                           s.allLines, minDist(f.level), f.parentNodeId, r),
         pc |-> PcAfter(st)]
  IN  Stored(placeNode(f, s.position, s.allPositions, s.allLines, sd, s.draws))

\* one turn of the loop over the children in arrangeChildrenAroundParent,
\* called with the parent's position as it is stored (lines 460-469, 361-420)
arrangeStep(s, k, exp, sd) ==
  LET f == Top(s.stack)
      children == ChildrenOf(k, f.node)
      existing == PositionsOf(s.allPositions)
      Turned(g) ==
        ReplaceTop(s.stack,
                   IF g.i >= Len(children)
                   THEN [g EXCEPT !.phase = "forEachChild", !.i = 0]
                   ELSE g)
      Arranged(a) ==
        [s EXCEPT
           !.draws = a.draws,
           !.last = IF a.called
                    THEN LastCall([parentPos |-> s.position[f.node]], children[f.i + 1],
                                  a.best.pos, existing \o f.childPositions, s.allLines,
                                  arrangeMinDist + f.level * arrangeMinDistPerLevel,
                                  f.node, a.safe)
                    ELSE s.last,
           !.stack = Turned([f EXCEPT !.i = f.i + 1, !.childPositions = a.childPositions])]
  IN  Arranged(arrangeChild(s.position[f.node], f.i, Len(children), children[f.i + 1],
                            existing, f.childPositions, s.allLines,
                            arrangeBaseRadius + f.level * arrangeRadiusPerLevel,
                            arrangeMinDist + f.level * arrangeMinDistPerLevel,
                            f.node, sd, s.draws))

\* one turn of node.children.forEach up to the recursive call (lines 471-480);
\* with childPositions[index] undefined the recursive call throws
assignStep(s, k, exp, sd) ==
  LET f == Top(s.stack)
      child == ChildrenOf(k, f.node)[f.i + 1]
      p == f.childPositions[f.i + 1]
  IN  IF f.i + 1 > Len(f.childPositions)
      THEN [s EXCEPT !.pc = "error"]
      ELSE [s EXCEPT
              !.position = setPosition(s.position, child, p),
              !.allPositions = pushPosition(s.allPositions, p, child),
              !.allLines = pushLine(s.allLines, s.position[f.node], p, f.node, child),
              !.stack = Append(ReplaceTop(s.stack, [f EXCEPT !.i = f.i + 1]),
                               Frame(child, "place", p, f.level + 1, f.node))]

\* one turn of nodes.forEach (lines 485-487)
branchStep(s, k, exp, sd) ==
  LET f == Top(s.stack)
      node == ChildrenOf(k, CenterId)[f.i + 1]
  IN  [s EXCEPT
         !.stack = Append(ReplaceTop(s.stack, [f EXCEPT !.i = f.i + 1]),
                          Frame(node, "place", s.position[CenterId], 0, CenterId))]

Running(phase) == pc = "pass" /\ stack # << >> /\ Top(stack).phase = phase

SetPassState(s) ==
  /\ position' = s.position
  /\ allPositions' = s.allPositions
  /\ allLines' = s.allLines
  /\ stack' = s.stack
  /\ draws' = s.draws
  /\ last' = s.last
  /\ pc' = s.pc

PlaceNode ==
  /\ Running("place")
  /\ SetPassState(placeStep(PassState, kids, expanded, seed))
  /\ UNCHANGED << kids, expanded, input, seed, appVars >>

ArrangeChild ==
  /\ Running("arrange")
  /\ SetPassState(arrangeStep(PassState, kids, expanded, seed))
  /\ UNCHANGED << kids, expanded, input, seed, appVars >>

AssignChild ==
  /\ Running("forEachChild")
  /\ SetPassState(assignStep(PassState, kids, expanded, seed))
  /\ UNCHANGED << kids, expanded, input, seed, appVars >>

NextBranch ==
  /\ Running("forEachNode")
  /\ SetPassState(branchStep(PassState, kids, expanded, seed))
  /\ UNCHANGED << kids, expanded, input, seed, appVars >>

PassStep == PlaceNode \/ ArrangeChild \/ AssignChild \/ NextBranch

\* before any call of findSafePosition
NoCall ==
  [node |-> NoId, parentPos |-> Origin, preferred |-> Origin, existing |-> << >>,
   lines |-> << >>, minDistance |-> 0, parentNodeId |-> NoId, pos |-> Origin,
   via |-> 0, examined |-> 0]

\* entry of repositionNodesWithCollisionDetection (lines 431-433, 485)
beginPass(k, pos) ==
  LET st == Unwind(<< Frame(CenterId, "forEachNode", pos[CenterId], 0, NoId) >>, k)
  IN  [position |-> pos,
       allPositions |-> << [pos |-> pos[CenterId], owner |-> CenterId] >>,
       allLines |-> << >>,
       stack |-> st,
       draws |-> 0,
       last |-> NoCall,
       pc |-> PcAfter(st)]

\* the pass from a state of it to its end
RECURSIVE runPass(_, _, _, _)
runPass(s, k, exp, sd) ==
  IF s.pc # "pass" THEN s
  ELSE LET phase == Top(s.stack).phase
       IN  runPass(CASE phase = "place" -> placeStep(s, k, exp, sd)
                     [] phase = "arrange" -> arrangeStep(s, k, exp, sd)
                     [] phase = "forEachChild" -> assignStep(s, k, exp, sd)
                     [] phase = "forEachNode" -> branchStep(s, k, exp, sd),
                   k, exp, sd)

\* repositionNodesWithCollisionDetection(nodes, centerNode): the positions after it
repositionNodesWithCollisionDetection(k, pos, exp, sd) ==
  runPass(beginPass(k, pos), k, exp, sd).position

(***************************************************************************)
(* Inputs of a pass                                                        *)
(***************************************************************************)
NumShapes == 3
NumTopChoices == 3
NumCenterChoices == 2
NumSeeds == 2
MaxCollapsed == 1

\* a chain of five nested single-child levels
shapeChain == << <<1>>, <<2>>, <<3>>, <<4>>, <<5>>, << >> >>
\* three branches, one with one child and one with two
shapeBranches == << <<1, 2, 3>>, <<4>>, <<5, 6>>, << >>, << >>, << >>, << >> >>
\* one branch of four children, the first with two children of its own
shapeFour == << <<1>>, <<2, 3, 4, 5>>, <<6, 7>>, << >>, << >>, << >>, << >>, << >> >>
\* two branches with two children each
shapeTwo == << <<1, 2>>, <<3, 4>>, <<5, 6>>, << >>, << >>, << >>, << >> >>
\* one branch of four children with one, one, three and no children
shapeDense == << <<1>>, <<2, 3, 4, 5>>, <<6>>, <<7>>, <<8, 9, 10>>, << >>,
                 << >>, << >>, << >>, << >>, << >> >>

\* one branch with six children
shapeSix == << <<1>>, <<2, 3, 4, 5, 6, 7>>, << >>, << >>, << >>, << >>, << >>, << >> >>

ShapeList == << shapeChain, shapeBranches, shapeTwo, shapeSix >>
Shapes == { ShapeList[i] : i \in 1..Min(NumShapes, Len(ShapeList)) }

\* requested positions of the top-level nodes
TopChoiceList == << Pos(500, 0, 0), Pos(-450, -250, 0), Pos(0, 0, 0), Pos(0, 500, 0),
                    Pos(300, 400, 0) >>
TopChoice(i) == TopChoiceList[(i % Min(NumTopChoices, Len(TopChoiceList))) + 1]

CenterChoiceList == << Origin, Pos(100, 0, 0), Pos(0, -200, 100) >>
CenterChoices == { CenterChoiceList[i] : i \in 1..Min(NumCenterChoices, Len(CenterChoiceList)) }

Seeds == 0..(NumSeeds - 1)

\* the position a node below the top level holds before the pass
StoredChildPos(n) == Pos(100 * n - 300, 300 - 50 * n, 100)

\* index of a top-level node in the list of top-level nodes, from 0
TopIndex(k, n) == CHOOSE j \in 0..(Len(ChildrenOf(k, CenterId)) - 1) : ChildrenOf(k, CenterId)[j + 1] = n

\* the top-level nodes request the same point (spread = 0) or successive
\* points of the list, starting at point r
InputPositions(k) ==
  { [n \in NodesOf(k) |->
       IF n = CenterId THEN c
       ELSE IF DepthOf(k, n) = 1 THEN TopChoice(r + spread * TopIndex(k, n))
       ELSE StoredChildPos(n)] :
    c \in CenterChoices, r \in 0..(NumTopChoices - 1), spread \in {0, 1} }

InputExpanded(k) ==
  { [n \in NodesOf(k) |-> n \notin C] :
    C \in { D \in SUBSET NodesOf(k) : Cardinality(D) <= MaxCollapsed } }

\* the page is idle: the application state the passes below do not read
NoLayout == [position |-> << >>, expanded |-> << >>]
CacheKeys == { "expanded", "collapsed" }
EmptyCache == [key \in CacheKeys |-> NoLayout]
NoHandler == [op |-> "none", node |-> CenterId, count |-> 0, before |-> NoLayout]

\* no object allocated yet
NoMemory == << >>

\* no function called on its own
NoFunction == [fn |-> "none"]

\* useState([]), useState([]), useState(""): no criterion is set
NoSelection == [protocols |-> {}, income |-> {}, searchTerm |-> << >>]

\* focusedNodeId: "center", isZoomedIn: false, breadcrumbs: [center]
NoFocus ==
  [focusedNodeId |-> CenterId, isZoomedIn |-> FALSE, breadcrumbs |-> << CenterId >>,
   timers |-> << >>]

\* no pointer is down on the sphere
NoPointer == [at |-> "up", button |-> 0, gestureStart |-> << 0, 0 >>, exceeded |-> FALSE, moves |-> 0, count |-> 0, calls |-> << >>, dragStarted |-> FALSE, isDraggingRef |-> FALSE, isShiftDraggingRef |-> FALSE, startClient |-> << 0, 0 >>]

AppIdle ==
  /\ variant = "A"
  /\ isAllExpanded = FALSE
  /\ isFilterActive = FALSE
  /\ needsRepositioning = FALSE
  /\ layoutCache = EmptyCache
  /\ gestures = 0
  /\ history = NoHandler
  /\ memory = NoMemory
  /\ call = NoFunction
  /\ selection = NoSelection
  /\ focus = NoFocus
  /\ pointer = NoPointer

StartPass(k, pos, exp, sd) ==
  /\ kids = k
  /\ expanded = exp
  /\ input = [kids |-> k, position |-> pos, expanded |-> exp]
  /\ seed = sd
  /\ LET b == beginPass(k, pos)
     IN  /\ position = b.position
         /\ allPositions = b.allPositions
         /\ allLines = b.allLines
         /\ stack = b.stack
         /\ draws = b.draws
         /\ last = b.last
         /\ pc = b.pc
  /\ AppIdle

Init ==
  \E k \in Shapes : \E pos \in InputPositions(k) : \E exp \in InputExpanded(k) :
    \E sd \in Seeds : StartPass(k, pos, exp, sd)

Next == PassStep

Spec == Init /\ [][Next]_vars

\* the pass over the trees with a branch of four children, every node expanded
DenseShapes == { shapeFour, shapeDense }

InitDense ==
  \E k \in DenseShapes : \E pos \in InputPositions(k) : \E sd \in Seeds :
    StartPass(k, pos, [n \in NodesOf(k) |-> TRUE], sd)

SpecDense == InitDense /\ [][Next]_vars

(***************************************************************************)
(* Application state machine: the page component                           *)
(*                                                                         *)
(* Two versions of the page component are in the repository: "A" is        *)
(* app/page.tsx and "B" is the other one.  networkState is (kids,          *)
(* position, expanded); a handler runs as one step, the pass it calls      *)
(* included.  The filter selection is not changed here, so that the cache  *)
(* keys differ in their expanded/collapsed part only.                      *)
(***************************************************************************)
MaxGestures == 4

\* createInitialNetworkState: two branches, the first with one child
appShape == << <<1, 2>>, <<3>>, << >>, << >> >>

freshPosition ==
  [n \in NodesOf(appShape) |->
     CASE n = 0 -> Origin
       [] n = 1 -> Pos(0, 500, 0)
       [] n = 2 -> Pos(450, -250, 0)
       [] n = 3 -> Pos(-300, 300, 100)]

freshExpanded == [n \in NodesOf(appShape) |-> n = CenterId]

Layout(pos, exp) == [position |-> pos, expanded |-> exp]

\* the selection of protocols, income and search is the empty one
generateCacheKey(isExpanded) == IF isExpanded THEN "expanded" ELSE "collapsed"

\* two keys never exceed maxCacheSize: nothing is evicted
cacheLayout(cache, key, layout) == [cache EXCEPT ![key] = layout]

getCachedLayout(cache, key) == cache[key]

\* the nodes a drag of n moves: n and the nodes below it (the center has no children)
MovedBy(n) ==
  { m \in NodesOf(kids) : m = n \/ (n # CenterId /\ n \in AncestorsOf(kids, m)) }

\* the result of expandAllNodes: the layout returned and the cache after it
expandAllNodes(v, pos, exp, cache, sd) ==
  LET cacheKey == generateCacheKey(TRUE)
      cachedLayout == getCachedLayout(cache, cacheKey)
      allExpanded == [n \in DOMAIN exp |-> TRUE]
      \* page A puts the center back where it was
      Restored(placed) ==
        IF v = "A" THEN [placed EXCEPT ![CenterId] = pos[CenterId]] ELSE placed
      Cached(layout) ==
        [layout |-> layout, cache |-> cacheLayout(cache, cacheKey, layout)]
  IN  IF cachedLayout # NoLayout
      THEN [layout |-> cachedLayout, cache |-> cache]
      ELSE Cached(Layout(Restored(repositionNodesWithCollisionDetection(
                                    kids, pos, allExpanded, sd)),
                         allExpanded))

\* the result of collapseAllNodes: the layout returned and the cache after it
collapseAllNodes(v, pos, exp, cache) ==
  LET cacheKey == generateCacheKey(FALSE)
      cachedLayout == getCachedLayout(cache, cacheKey)
      allCollapsed == [n \in DOMAIN exp |-> n = CenterId]
      \* page A moves the center to the origin
      moved == IF v = "A" THEN [pos EXCEPT ![CenterId] = Origin] ELSE pos
      layout == Layout(moved, allCollapsed)
  IN  IF cachedLayout # NoLayout
      THEN [layout |-> cachedLayout, cache |-> cache]
      ELSE [layout |-> layout, cache |-> cacheLayout(cache, cacheKey, layout)]

\* a click that can only collapse
toggleCollapseOnly(exp, n) == [exp EXCEPT ![n] = FALSE]

\* targetNode.expanded = !targetNode.expanded
toggleExpanded(exp, n) == [exp EXCEPT ![n] = ~exp[n]]

\* the handlers run between renders; page B's repositioning effect runs
\* before the next of them
Idle == pc = "done" /\ ~(needsRepositioning /\ isFilterActive) /\ gestures < MaxGestures

\* the handler that ran last is remembered with the node it was given and the
\* layout it started from; of two clicks in a row on one node, the layout the
\* first started from is kept
Remember(op, n) ==
  /\ history' = IF op = "click" /\ history.op = "click" /\ history.node = n
                   /\ history.count = 1
                THEN [history EXCEPT !.count = 2]
                ELSE [op |-> op, node |-> n, count |-> 1,
                      before |-> Layout(position, expanded)]
  /\ gestures' = IF op = "reposition" THEN gestures ELSE gestures + 1

passIdle == << input, allPositions, allLines, stack, seed, draws, last, pc >>

HandleNodeClick ==
  \E n \in NodesOf(kids) :
    /\ Idle
    /\ expanded' = toggleExpanded(expanded, n)
    /\ IF variant = "B"
       THEN /\ layoutCache' = cacheLayout(layoutCache, generateCacheKey(isAllExpanded),
                                          Layout(position, expanded'))
            /\ needsRepositioning' = (needsRepositioning \/ isFilterActive)
       ELSE UNCHANGED << layoutCache, needsRepositioning >>
    /\ Remember("click", n)
    /\ UNCHANGED << kids, position, variant, isAllExpanded, isFilterActive, passIdle,
                    memory, call, selection, focus,
     pointer >>

DragDeltas == { Pos(0, 0, 0), Pos(100, 0, 0) }

\* relativePositions of storeRelativePositions(node, node.position): for every
\* node below the dragged one, its position minus the position of its parent
storeRelativePositions(k, pos, n) ==
  [m \in MovedBy(n) \ {n} |->
     Pos(pos[m].x - pos[ParentOf(k, m)].x,
         pos[m].y - pos[ParentOf(k, m)].y,
         pos[m].z - pos[ParentOf(k, m)].z)]

\* the position applyPositionWithRelatives gives to m, a node of the subtree of n
RECURSIVE appliedPosition(_, _, _, _, _)
appliedPosition(k, relatives, n, newPos, m) ==
  IF m = n THEN newPos
  ELSE LET Below(parentNewPos) ==
             Pos(parentNewPos.x + relatives[m].x,
                 parentNewPos.y + relatives[m].y,
                 parentNewPos.z + relatives[m].z)
       IN  Below(appliedPosition(k, relatives, n, newPos, ParentOf(k, m)))

\* applyPositionWithRelatives(nodeToDrag, newPosition, relativePositions)
applyPositionWithRelatives(k, pos, n, newPosition) ==
  [m \in DOMAIN pos |->
     IF m \in MovedBy(n)
     THEN appliedPosition(k, storeRelativePositions(k, pos, n), n, newPosition, m)
     ELSE pos[m]]

HandleNodeDrag ==
  \E n \in NodesOf(kids) : \E delta \in DragDeltas :
    /\ Idle
    /\ IF delta = Origin
       THEN UNCHANGED << position, layoutCache >>
       ELSE /\ position' = applyPositionWithRelatives(
                             kids, position, n,
                             Pos(position[n].x + delta.x, position[n].y + delta.y,
                                 position[n].z + delta.z))
            /\ IF variant = "B"
               THEN layoutCache' = cacheLayout(layoutCache, generateCacheKey(isAllExpanded),
                                               Layout(position', expanded))
               ELSE UNCHANGED layoutCache
    /\ Remember("drag", n)
    /\ UNCHANGED << kids, expanded, variant, isAllExpanded, isFilterActive,
                    needsRepositioning, passIdle, memory, call, selection, focus,
     pointer >>

HandleExpandAll ==
  \E sd \in Seeds :
    /\ Idle
    /\ \E r \in { IF ~isAllExpanded
                  THEN expandAllNodes(variant, position, expanded, layoutCache, sd)
                  ELSE collapseAllNodes(variant, position, expanded, layoutCache) } :
          /\ position' = r.layout.position
          /\ expanded' = r.layout.expanded
          /\ layoutCache' = r.cache
    /\ isAllExpanded' = ~isAllExpanded
    /\ Remember(IF isAllExpanded THEN "collapseAll" ELSE "expandAll", CenterId)
    /\ UNCHANGED << kids, variant, isFilterActive, needsRepositioning, passIdle, memory, call, selection, focus,
     pointer >>

HandleResetLayout ==
  \E sd \in Seeds :
    /\ Idle
    /\ position' = repositionNodesWithCollisionDetection(kids, freshPosition, expanded, sd)
    /\ layoutCache' = EmptyCache
    /\ Remember("reset", CenterId)
    /\ UNCHANGED << kids, expanded, variant, isAllExpanded, isFilterActive,
                    needsRepositioning, passIdle, memory, call, selection, focus,
     pointer >>

\* handleToggleFilter, the onToggleFilter of the filter panel
onToggleFilter ==
  \E sd \in Seeds :
    /\ Idle
    /\ isFilterActive' = ~isFilterActive
    /\ IF ~isFilterActive /\ ~isAllExpanded
       THEN \E r \in { expandAllNodes(variant, position, expanded, layoutCache, sd) } :
                /\ position' = r.layout.position
                /\ expanded' = r.layout.expanded
                /\ layoutCache' = r.cache
                /\ isAllExpanded' = TRUE
       ELSE UNCHANGED << position, expanded, layoutCache, isAllExpanded >>
    /\ Remember("filter", CenterId)
    /\ UNCHANGED << kids, variant, needsRepositioning, passIdle, memory, call, focus,
                    pointer >>

HandleToggleFilter == onToggleFilter /\ UNCHANGED selection

\* page B: the effect on needsRepositioning
RepositionEffect ==
  \E sd \in Seeds :
    /\ pc = "done"
    /\ variant = "B"
    /\ needsRepositioning /\ isFilterActive
    /\ position' = repositionNodesWithCollisionDetection(kids, position, expanded, sd)
    /\ layoutCache' = cacheLayout(layoutCache, generateCacheKey(isAllExpanded),
                                  Layout(position', expanded))
    /\ needsRepositioning' = FALSE
    /\ Remember("reposition", CenterId)
    /\ UNCHANGED << kids, expanded, variant, isAllExpanded, isFilterActive, passIdle,
                    memory, call, selection, focus,
     pointer >>

AppInit ==
  /\ kids = appShape
  /\ position = freshPosition
  /\ expanded = freshExpanded
  /\ input = [kids |-> appShape, position |-> freshPosition, expanded |-> freshExpanded]
  /\ allPositions = << >>
  /\ allLines = << >>
  /\ stack = << >>
  /\ seed = 0
  /\ draws = 0
  /\ last = NoCall
  /\ pc = "done"
  /\ variant \in {"A", "B"}
  /\ isAllExpanded = FALSE
  /\ isFilterActive = FALSE
  /\ needsRepositioning = FALSE
  /\ layoutCache = EmptyCache
  /\ gestures = 0
  /\ history = NoHandler
  /\ memory = NoMemory
  /\ call = NoFunction
  /\ selection = NoSelection
  /\ focus = NoFocus
  /\ pointer = NoPointer

AppNext ==
  \/ HandleNodeClick
  \/ HandleNodeDrag
  \/ HandleExpandAll
  \/ HandleResetLayout
  \/ HandleToggleFilter
  \/ RepositionEffect

AppSpec == AppInit /\ [][AppNext]_vars

(***************************************************************************)
(* Repeated invocation of the pass                                         *)
(***************************************************************************)
\* the pass run again on the tree it was first given
MaxPasses == 2

\* a new invocation that goes on with the accumulators of the one before
resumedPass(k, pos) ==
  [beginPass(k, pos) EXCEPT !.allPositions = allPositions \o @, !.allLines = allLines]

\* a new invocation: allPositions and allLines are locals of the call
freshPass(k, pos) == beginPass(k, pos)

\* a caller invokes the pass once more, on an equal tree and with the same draws
PassAgain ==
  /\ pc = "done"
  /\ gestures + 1 < MaxPasses
  /\ SetPassState(freshPass(kids, input.position))
  /\ history' = [op |-> "again", node |-> CenterId, count |-> 1,
                 before |-> Layout(position, expanded)]
  /\ gestures' = gestures + 1
  /\ UNCHANGED << kids, expanded, input, seed, variant, isAllExpanded, isFilterActive,
                  needsRepositioning, layoutCache, memory, call, selection, focus,
     pointer >>

NextAgain == PassStep \/ PassAgain

SpecAgain == Init /\ [][NextAgain]_vars

(***************************************************************************)
(* The trees of the page as objects                                        *)
(*                                                                         *)
(* A tree is two objects, the array of branches and the center, each held  *)
(* by reference.  structuredClone allocates; every other write is made in  *)
(* place, on the object the reference names.                               *)
(***************************************************************************)
MaxObjects == 10

Refs == 1..MaxObjects
NoRef == 0
NoTree == [nodes |-> NoRef, center |-> NoRef]

\* the part of a layout held by the array of branches, and by the center
nodesOf(layout) ==
  Layout([n \in DOMAIN layout.position \ {CenterId} |-> layout.position[n]],
         [n \in DOMAIN layout.expanded \ {CenterId} |-> layout.expanded[n]])

centerOf(layout) ==
  Layout([n \in {CenterId} |-> layout.position[n]],
         [n \in {CenterId} |-> layout.expanded[n]])

\* the layout a tree holds
content(heap, t) ==
  Layout([n \in NodesOf(appShape) |->
            IF n = CenterId THEN heap[t.center].position[n] ELSE heap[t.nodes].position[n]],
         [n \in NodesOf(appShape) |->
            IF n = CenterId THEN heap[t.center].expanded[n] ELSE heap[t.nodes].expanded[n]])

newRef(heap) ==
  CHOOSE r \in Refs : heap[r] = NoLayout /\ \A q \in Refs : q < r => heap[q] # NoLayout

allocate(m, object) ==
  [m EXCEPT !.heap[newRef(m.heap)] = object, !.obj = newRef(m.heap)]

\* a reference handed on instead of a copy
sameObject(m, r) == [m EXCEPT !.obj = r]

\* structuredClone(value): a new object with the content of the given one
structuredClone(m, r) == allocate(m, m.heap[r])

asNodes(m) == [m EXCEPT !.ret.nodes = m.obj]
asCenter(m) == [m EXCEPT !.ret.center = m.obj]

\* structuredClone(nodes) and structuredClone(centerNode); the pair is left in ret
cloneTree(m, t) ==
  asCenter(structuredClone(asNodes(structuredClone(m, t.nodes)), t.center))

stored(m, key) == [m EXCEPT !.cache[key] = m.ret]

\* cacheLayout(key, nodes, centerNode), the tree given is left in ret
cacheLayoutOf(m, key, t) == [stored(cloneTree(m, t), key) EXCEPT !.ret = t]

\* getCachedLayout(key): null, or a copy of the cached tree
getCachedLayoutOf(m, key) ==
  IF m.cache[key] = NoTree THEN [m EXCEPT !.ret = NoTree] ELSE cloneTree(m, m.cache[key])

clearCache(m) == [m EXCEPT !.cache = [key \in CacheKeys |-> NoTree]]

\* node.expanded = flag on every node of the tree, and on its center
setExpanded(m, t, exp) ==
  [m EXCEPT !.heap[t.nodes].expanded = [n \in DOMAIN @ |-> exp[n]],
            !.heap[t.center].expanded = [n \in DOMAIN @ |-> exp[n]]]

\* the writes of node.position on the nodes of the tree
setPositions(m, t, pos) ==
  [m EXCEPT !.heap[t.nodes].position = [n \in DOMAIN @ |-> pos[n]]]

\* centerNode.position = p
setCenterPosition(m, t, p) ==
  [m EXCEPT !.heap[t.center].position = [n \in DOMAIN @ |-> p]]

\* repositionNodesWithCollisionDetection(nodes, centerNode) on the tree t
repositionTree(m, t, sd) ==
  setPositions(m, t, repositionNodesWithCollisionDetection(
                       appShape, content(m.heap, t).position,
                       content(m.heap, t).expanded, sd))

\* expandAllNodes(networkState.nodes, networkState.centerNode); result in ret
expandAllNodesOf(m, v, sd) ==
  LET cacheKey == generateCacheKey(TRUE)
      original == m.heap[m.state.center].position[CenterId]
      allExpanded == [n \in NodesOf(appShape) |-> TRUE]
      Restored(c) == IF v = "A" THEN setCenterPosition(c, c.ret, original) ELSE c
      Cached(c) == cacheLayoutOf(c, cacheKey, c.ret)
      Placed(c) == repositionTree(c, c.ret, sd)
      Expanded(c) == setExpanded(c, c.ret, allExpanded)
  IN  IF m.cache[cacheKey] # NoTree
      THEN getCachedLayoutOf(m, cacheKey)
      ELSE Cached(Restored(Placed(Expanded(cloneTree(m, m.state)))))

\* collapseAllNodes(networkState.nodes, networkState.centerNode); result in ret
collapseAllNodesOf(m, v) ==
  LET cacheKey == generateCacheKey(FALSE)
      allCollapsed == [n \in NodesOf(appShape) |-> n = CenterId]
      Moved(c) == IF v = "A" THEN setCenterPosition(c, c.ret, Origin) ELSE c
      Cached(c) == cacheLayoutOf(c, cacheKey, c.ret)
      Collapsed(c) == setExpanded(c, c.ret, allCollapsed)
  IN  IF m.cache[cacheKey] # NoTree
      THEN getCachedLayoutOf(m, cacheKey)
      ELSE Cached(Moved(Collapsed(cloneTree(m, m.state))))

\* setNetworkState with the tree left in ret
setNetworkState(m) == [m EXCEPT !.state = m.ret]

\* the objects a tree is made of
objectsOf(t) == {t.nodes, t.center} \ {NoRef}

\* the objects the state and the cache hold
heldBy(m) == objectsOf(m.state) \cup UNION { objectsOf(m.cache[key]) : key \in CacheKeys }

\* objects nothing refers to any more are reclaimed
collect(m) ==
  [m EXCEPT !.heap = [r \in Refs |-> IF r \in heldBy(m) THEN @[r] ELSE NoLayout],
            !.ret = NoTree, !.obj = NoRef]

\* the render after a handler: the tree of the state is the one shown
Render(m) ==
  /\ memory' = collect(m)
  /\ position' = content(m.heap, m.state).position
  /\ expanded' = content(m.heap, m.state).expanded
  /\ layoutCache' = [key \in CacheKeys |->
                       IF m.cache[key] = NoTree THEN NoLayout
                       ELSE content(m.heap, m.cache[key])]

ObjHandleExpandAll ==
  \E sd \in Seeds :
    /\ Idle
    /\ \E m \in { IF ~isAllExpanded THEN expandAllNodesOf(memory, variant, sd)
                  ELSE collapseAllNodesOf(memory, variant) } :
          Render(setNetworkState(m))
    /\ isAllExpanded' = ~isAllExpanded
    /\ Remember(IF isAllExpanded THEN "collapseAll" ELSE "expandAll", CenterId)
    /\ UNCHANGED << kids, variant, isFilterActive, needsRepositioning, passIdle, call, selection, focus,
     pointer >>

\* expansionMap after collectExpansionStates on the center and on every node,
\* through the children of collapsed nodes as well: id -> expanded
collectExpansionStates(exp) == [n \in NodesOf(appShape) |-> exp[n]]

\* a reset that leaves the flags of the fresh tree as they are
keepFreshFlags(fresh, expansionMap) == fresh

\* node.expanded = expansionMap.get(node.id) ?? node.expanded, where the map
\* has the id
applyExpansionStates(fresh, expansionMap) ==
  [n \in DOMAIN fresh |-> IF n \in DOMAIN expansionMap THEN expansionMap[n] ELSE fresh[n]]

\* createInitialNetworkState() with the expansion flags of the state applied
freshState(m) ==
  LET flags == applyExpansionStates(
                 freshExpanded, collectExpansionStates(content(m.heap, m.state).expanded))
      Center(c) == asCenter(allocate(c, centerOf(Layout(freshPosition, flags))))
      Nodes(c) == asNodes(allocate(c, nodesOf(Layout(freshPosition, flags))))
  IN  Center(Nodes(m))

ObjHandleResetLayout ==
  \E sd \in Seeds :
    /\ Idle
    /\ \E m \in { freshState(memory) } :
         \E placed \in { repositionTree(m, m.ret, sd) } :
            Render(clearCache(setNetworkState(placed)))
    /\ Remember("reset", CenterId)
    /\ UNCHANGED << kids, variant, isAllExpanded, isFilterActive, needsRepositioning,
                    passIdle, call, selection, focus,
     pointer >>

ObjHandleToggleFilter ==
  \E sd \in Seeds :
    /\ Idle
    /\ isFilterActive' = ~isFilterActive
    /\ IF ~isFilterActive /\ ~isAllExpanded
       THEN /\ \E m \in { expandAllNodesOf(memory, variant, sd) } :
                  Render(setNetworkState(m))
            /\ isAllExpanded' = TRUE
       ELSE UNCHANGED << position, expanded, layoutCache, isAllExpanded, memory >>
    /\ Remember("filter", CenterId)
    /\ UNCHANGED << kids, variant, needsRepositioning, passIdle, call, selection, focus,
     pointer >>

\* page B: the effect on needsRepositioning
ObjRepositionEffect ==
  \E sd \in Seeds :
    /\ pc = "done"
    /\ variant = "B"
    /\ needsRepositioning /\ isFilterActive
    /\ \E m \in { cloneTree(memory, memory.state) } :
         \E placed \in { repositionTree(m, m.ret, sd) } :
            Render(setNetworkState(
                     cacheLayoutOf(placed, generateCacheKey(isAllExpanded), placed.ret)))
    /\ needsRepositioning' = FALSE
    /\ Remember("reposition", CenterId)
    /\ UNCHANGED << kids, variant, isAllExpanded, isFilterActive, passIdle, call, selection, focus,
     pointer >>

\* { ...prev, centerNode: { ...prev.centerNode, expanded: !expanded } }: a new
\* center beside the array of branches of the state before
toggledCenter(m) ==
  LET Toggled(c) ==
        [c EXCEPT !.heap[c.obj].expanded = toggleExpanded(@, CenterId),
                  !.ret = [nodes |-> m.state.nodes, center |-> c.obj]]
  IN  Toggled(structuredClone(m, m.state.center))

\* structuredClone(prev) and the flag of the clicked node toggled in the copy
toggledNode(m, n) ==
  LET Toggled(c) == [c EXCEPT !.heap[c.ret.nodes].expanded = toggleExpanded(@, n)]
  IN  Toggled(cloneTree(m, m.state))

ObjHandleNodeClick ==
  \E n \in NodesOf(kids) :
    /\ Idle
    /\ \E m \in { IF n = CenterId THEN toggledCenter(memory) ELSE toggledNode(memory, n) } :
         IF variant = "B"
         THEN /\ Render(setNetworkState(
                          cacheLayoutOf(m, generateCacheKey(isAllExpanded), m.ret)))
              /\ needsRepositioning' = (needsRepositioning \/ isFilterActive)
         ELSE /\ Render(setNetworkState(m))
              /\ UNCHANGED needsRepositioning
    /\ Remember("click", n)
    /\ UNCHANGED << kids, variant, isAllExpanded, isFilterActive, passIdle, call, selection, focus,
     pointer >>

\* structuredClone(prev) and the positions of the drag written into the copy
draggedNode(m, n, delta) ==
  LET Dragged(c, pos) ==
        setCenterPosition(
          setPositions(c, c.ret,
                       applyPositionWithRelatives(
                         appShape, pos, n,
                         Pos(pos[n].x + delta.x, pos[n].y + delta.y, pos[n].z + delta.z))),
          c.ret,
          IF n = CenterId
          THEN Pos(pos[n].x + delta.x, pos[n].y + delta.y, pos[n].z + delta.z)
          ELSE pos[CenterId])
  IN  Dragged(cloneTree(m, m.state), content(m.heap, m.state).position)

ObjHandleNodeDrag ==
  \E n \in NodesOf(kids) : \E delta \in DragDeltas :
    /\ Idle
    /\ IF delta = Origin
       THEN UNCHANGED << position, expanded, layoutCache, memory >>
       ELSE \E m \in { draggedNode(memory, n, delta) } :
              IF variant = "B"
              THEN Render(setNetworkState(
                            cacheLayoutOf(m, generateCacheKey(isAllExpanded), m.ret)))
              ELSE Render(setNetworkState(m))
    /\ Remember("drag", n)
    /\ UNCHANGED << kids, variant, isAllExpanded, isFilterActive, needsRepositioning,
                    passIdle, call, selection, focus,
     pointer >>

\* the page after its first render: the state holds the tree of
\* createInitialNetworkState and the cache is empty
firstMemory ==
  [heap |-> [r \in Refs |->
               CASE r = 1 -> nodesOf(Layout(freshPosition, freshExpanded))
                 [] r = 2 -> centerOf(Layout(freshPosition, freshExpanded))
                 [] OTHER -> NoLayout],
   state |-> [nodes |-> 1, center |-> 2],
   cache |-> [key \in CacheKeys |-> NoTree],
   ret |-> NoTree,
   obj |-> NoRef]

ObjInit ==
  /\ kids = appShape
  /\ position = freshPosition
  /\ expanded = freshExpanded
  /\ input = [kids |-> appShape, position |-> freshPosition, expanded |-> freshExpanded]
  /\ allPositions = << >>
  /\ allLines = << >>
  /\ stack = << >>
  /\ seed = 0
  /\ draws = 0
  /\ last = NoCall
  /\ pc = "done"
  /\ variant \in {"A", "B"}
  /\ isAllExpanded = FALSE
  /\ isFilterActive = FALSE
  /\ needsRepositioning = FALSE
  /\ layoutCache = EmptyCache
  /\ gestures = 0
  /\ history = NoHandler
  /\ memory = firstMemory
  /\ call = NoFunction
  /\ selection = NoSelection
  /\ focus = NoFocus
  /\ pointer = NoPointer

ObjNext ==
  \/ ObjHandleNodeClick
  \/ ObjHandleNodeDrag
  \/ ObjHandleExpandAll
  \/ ObjHandleResetLayout
  \/ ObjHandleToggleFilter
  \/ ObjRepositionEffect

ObjSpec == ObjInit /\ [][ObjNext]_vars

(***************************************************************************)
(* The functions of the engine called on their own                         *)
(***************************************************************************)
\* the page and the pass at rest while a function is called on its own
Resting ==
  /\ kids = appShape
  /\ position = freshPosition
  /\ expanded = freshExpanded
  /\ input = [kids |-> kids, position |-> position, expanded |-> expanded]
  /\ allPositions = << >>
  /\ allLines = << >>
  /\ stack = << >>
  /\ seed = 0
  /\ draws = 0
  /\ last = NoCall
  /\ pc = "done"
  /\ variant = "A"
  /\ isAllExpanded = FALSE
  /\ isFilterActive = FALSE
  /\ needsRepositioning = FALSE
  /\ layoutCache = EmptyCache
  /\ gestures = 0
  /\ history = NoHandler
  /\ memory = NoMemory
  /\ selection = NoSelection
  /\ focus = NoFocus
  /\ pointer = NoPointer

restVars ==
  << kids, position, expanded, input, allPositions, allLines, stack, seed, draws, last,
     pc, variant, isAllExpanded, isFilterActive, needsRepositioning, layoutCache,
     gestures, history, memory, selection, focus, pointer >>

\* enforceHierarchicalDistance applied to a candidate, and then to its own result
MaxApplications == 2

\* candidates and parents at a whole number of 1/Scale of a world unit from the
\* origin, so that the floor of Math.sqrt is their distance itself
NumCandidates == 13
NumParents == 5

CandidateList ==
  << Origin, Pos(100, 0, 0), Pos(0, -50, 0), Pos(0, 0, 100), Pos(60, 80, 0),
     Pos(-180, 240, 0), Pos(300, 400, 0), Pos(100, 200, 200), Pos(-200, 100, 200),
     Pos(20, 0, 0), Pos(-120, -160, 0), Pos(40, 40, 20), Pos(-30, -40, 0),
     Pos(0, 300, 0), Pos(120, 0, 160) >>

ParentList ==
  << Origin, Pos(100, 0, 0), Pos(-180, 240, 0), Pos(60, 80, 0), Pos(100, 200, 200),
     Pos(0, 300, 0), Pos(0, 0, -50) >>

Points == { CandidateList[i] : i \in 1..Min(NumCandidates, Len(CandidateList)) }
ParentPoints == { ParentList[i] : i \in 1..Min(NumParents, Len(ParentList)) }

EnforceInit ==
  /\ Resting
  /\ \E c \in Points : \E p \in ParentPoints :
       call = [fn |-> "enforceHierarchicalDistance", candidatePos |-> c, parentPos |-> p,
               results |-> << >>]

ApplyEnforce ==
  /\ call.fn = "enforceHierarchicalDistance"
  /\ Len(call.results) < MaxApplications
  /\ call' = [call EXCEPT !.results =
                Append(@, enforceHierarchicalDistance(
                            IF @ = << >> THEN call.candidatePos ELSE @[Len(@)],
                            call.parentPos, minGenerationGap))]
  /\ UNCHANGED restVars

EnforceNext == ApplyEnforce

EnforceSpec == EnforceInit /\ [][EnforceNext]_vars

\* findSafePosition called on its own, one candidate at a time
NumScenes == 8

\* two edges of other nodes that cross at p: every segment from p meets one
blockedAt(p) ==
  << [start |-> Pos(p.x - 1000, p.y - 1000, 0), end |-> Pos(p.x + 1000, p.y + 1000, 0),
      startNodeId |-> 6, endNodeId |-> 7],
     [start |-> Pos(p.x - 1000, p.y + 1000, 0), end |-> Pos(p.x + 1000, p.y - 1000, 0),
      startNodeId |-> 8, endNodeId |-> 9] >>

\* six nodes around p at the given radius
ringAround(p, radius) ==
  [i \in 1..6 |-> Pos(p.x + RDiv(Cos(16 * (i - 1)) * radius, TrigScale),
                      p.y + RDiv(Sin(16 * (i - 1)) * radius, TrigScale), p.z)]

Scene(parentPos, preferredPos, existingPositions, existingLines) ==
  [parentPos |-> parentPos, preferredPos |-> preferredPos,
   existingPositions |-> existingPositions, existingLines |-> existingLines]

SceneList ==
  << \* every candidate crosses an edge; the preferred position is straight
     \* above the parent (no x component)
     Scene(Pos(0, 300, 0), Pos(0, 600, 0), << Pos(0, 300, 0) >>, blockedAt(Pos(0, 300, 0))),
     \* the corrected preferred position is nearer than effectiveMinDistance
     Scene(Pos(100, 0, 0), Pos(150, 0, 0), << Pos(100, 0, 0), Pos(180, 0, 0) >>, << >>),
     \* nothing in the way
     Scene(Pos(100, 0, 0), Pos(300, 0, 0), << Pos(100, 0, 0) >>, << >>),
     \* every candidate crosses an edge; no component of the direction is zero
     Scene(Pos(100, 0, 0), Pos(300, 100, 50), << Pos(100, 0, 0) >>,
           blockedAt(Pos(100, 0, 0))),
     \* every candidate crosses an edge; the direction is along x
     Scene(Pos(100, 0, 0), Pos(400, 0, 0), << Pos(100, 0, 0) >>, blockedAt(Pos(100, 0, 0))),
     \* the nodes around the parent are in the way of the nearer radii
     Scene(Origin, Pos(200, 0, 0), ringAround(Origin, 200), << >>),
     \* every candidate crosses an edge; the preferred position is the parent's
     Scene(Pos(100, 0, 0), Pos(100, 0, 0), << >>, blockedAt(Pos(100, 0, 0))),
     \* an edge recorded between the parent (node 1) and the node (node 2) lies
     \* across the way to the preferred position
     Scene(Pos(100, 0, 0), Pos(400, 0, 0), << Pos(100, 0, 0) >>,
           << [start |-> Pos(250, -200, 0), end |-> Pos(250, 200, 0),
               startNodeId |-> 1, endNodeId |-> 2] >>),
     \* every candidate crosses an edge; the direction has no x and no y
     Scene(Pos(0, 0, 300), Pos(0, 0, 600), << >>, blockedAt(Pos(0, 0, 300))) >>

Scenes == { SceneList[i] : i \in 1..Min(NumScenes, Len(SceneList)) }

NoCandidate == [radius |-> 0, pos |-> Origin]

\* currentNodeId and parentNodeId are optional parameters: both given, one of
\* them, or none
SuppliedIds ==
  { [currentNodeId |-> c, parentNodeId |-> p] : c \in {2, NoId}, p \in {1, NoId} }

SearchInit ==
  /\ Resting
  /\ \E scene \in Scenes : \E ids \in SuppliedIds :
       call = [fn |-> "findSafePosition", parentPos |-> scene.parentPos,
               preferredPos |-> scene.preferredPos,
               existingPositions |-> scene.existingPositions,
               existingLines |-> scene.existingLines,
               minDistance |-> deepMinDist, currentNodeId |-> ids.currentNodeId,
               parentNodeId |-> ids.parentNodeId,
               at |-> "start", hierarchicalPos |-> Origin, baseDistance |-> 0,
               distance |-> 0, i |-> 0, drawn |-> 0, radii |-> << >>,
               testPos |-> NoCandidate, result |-> Origin]

SearchSafe(pos) ==
  IsSafe(call.parentPos, pos, call.existingPositions, call.existingLines,
         call.minDistance + glowBuffer, call.parentNodeId, call.currentNodeId)

\* lines 250-266: the corrected preferred position is returned if it is safe
CheckPreferred ==
  /\ call.fn = "findSafePosition"
  /\ call.at = "start"
  /\ \E h \in { enforceHierarchicalDistance(call.preferredPos, call.parentPos,
                                            minGenerationGap) } :
       \E base \in { Max(distance3D(call.parentPos, h), call.minDistance + glowBuffer) } :
         call' = IF SearchSafe(h)
                 THEN [call EXCEPT !.hierarchicalPos = h, !.at = "returned", !.result = h]
                 ELSE [call EXCEPT !.hierarchicalPos = h, !.baseDistance = base,
                                   !.at = "samples", !.distance = base, !.i = 0,
                                   !.radii = << base >>]
  /\ UNCHANGED restVars

\* distance = baseDistance + 0.5
firstGrown(baseDistance) == baseDistance + growthStart

\* a loop that grows the radius by its first step every time
nextGrownByStart(distance) == distance + growthStart

\* distance += 0.3
nextGrown(distance) == distance + growthStep

\* distance < baseDistance + 4.0
withinGrowth(distance, baseDistance) == distance < baseDistance + growthLimit

\* one turn of a sampling loop: the candidate of angle i at the radius distance
sample(c) ==
  [radius |-> c.distance,
   pos |-> SamplePos(c.parentPos, c.hierarchicalPos.z, c.distance, c.i,
                     Jitter(seed, c.drawn))]

\* what follows a candidate that is not safe: the next angle, the next radius
\* or the fallback
afterSample(c) ==
  IF c.i + 1 < attempts THEN [c EXCEPT !.i = c.i + 1]
  ELSE LET After(distance) ==
             IF withinGrowth(distance, c.baseDistance)
             THEN [c EXCEPT !.at = "growth", !.i = 0, !.distance = distance,
                            !.radii = Append(@, distance)]
             ELSE [c EXCEPT !.at = "fallback"]
       IN  After(IF c.at = "samples" THEN firstGrown(c.baseDistance)
                 ELSE nextGrown(c.distance))

examine(c, candidate) ==
  LET Tested(testPos) ==
        IF SearchSafe(testPos)
        THEN [c EXCEPT !.testPos = candidate, !.drawn = c.drawn + 1,
                       !.at = "returned", !.result = testPos]
        ELSE [afterSample(c) EXCEPT !.testPos = candidate, !.drawn = c.drawn + 1]
  IN  Tested(enforceHierarchicalDistance(candidate.pos, c.parentPos, minGenerationGap))

\* lines 269-286: one turn of the loop over the angles at baseDistance
SampleAtBase ==
  /\ call.fn = "findSafePosition"
  /\ call.at = "samples"
  /\ call' = examine(call, sample(call))
  /\ UNCHANGED restVars

\* lines 289-308: one turn of the inner loop at a grown radius
SampleGrown ==
  /\ call.fn = "findSafePosition"
  /\ call.at = "growth"
  /\ call' = examine(call, sample(call))
  /\ UNCHANGED restVars

\* lines 310-330
Fallback ==
  /\ call.fn = "findSafePosition"
  /\ call.at = "fallback"
  /\ \E f \in { fallbackPos(call.parentPos, call.hierarchicalPos, call.baseDistance,
                            call.minDistance + glowBuffer) } :
       call' = [call EXCEPT !.testPos = [radius |-> 0, pos |-> f],
                            !.at = "returnedFallback",
                            !.result = enforceHierarchicalDistance(f, call.parentPos,
                                                                   minGenerationGap)]
  /\ UNCHANGED restVars

SearchNext == CheckPreferred \/ SampleAtBase \/ SampleGrown \/ Fallback

SearchSpec == SearchInit /\ [][SearchNext]_vars

\* arrangeChildrenAroundParent called on its own, one candidate at a time
NumArrangements == 5

\* an edge of other nodes standing across the x axis, to the right of p
wallRightOf(p) ==
  << [start |-> Pos(p.x + 100, p.y - 1000, 0), end |-> Pos(p.x + 100, p.y + 1000, 0),
      startNodeId |-> 8, endNodeId |-> 9] >>

\* three nodes around p at the given radius: above, to the left and below
threeAround(p, radius) ==
  << Pos(p.x, p.y + radius, p.z), Pos(p.x - radius, p.y, p.z), Pos(p.x, p.y - radius, p.z) >>

Arrangement(parentPos, numChildren, existingPositions, existingLines) ==
  [parentPos |-> parentPos, numChildren |-> numChildren,
   existingPositions |-> existingPositions, existingLines |-> existingLines]

ArrangementList ==
  << \* nothing in the way: the first candidate of every child is free
     Arrangement(Pos(300, 0, 0), 3, << Pos(300, 0, 0) >>, << >>),
     \* a node where the first candidates of the first child fall
     Arrangement(Origin, 2, << Origin, Pos(170, 0, 0) >>, << >>),
     \* every candidate crosses an edge
     Arrangement(Origin, 2, << Origin >>, blockedAt(Origin)),
     \* nodes around the parent and an edge across the first direction
     Arrangement(Origin, 1, threeAround(Origin, 170), wallRightOf(Origin)),
     \* every candidate crosses an edge, some collide as well
     Arrangement(Origin, 2, threeAround(Origin, 170), blockedAt(Origin)),
     \* nodes all around the parent
     Arrangement(Origin, 2, ringAround(Origin, 170), << >>) >>

Arrangements == { ArrangementList[i] : i \in 1..Min(NumArrangements, Len(ArrangementList)) }

NoBest == [found |-> FALSE, pos |-> Origin, score |-> InfiniteScore, penalty |-> 0]

ArrangeInit ==
  /\ Resting
  /\ \E a \in Arrangements :
       call = [fn |-> "arrangeChildrenAroundParent", parentPos |-> a.parentPos,
               numChildren |-> a.numChildren,
               existingPositions |-> a.existingPositions,
               existingLines |-> a.existingLines,
               baseRadius |-> arrangeBaseRadius, minDistance |-> arrangeMinDist,
               parentNodeId |-> 1, at |-> IF a.numChildren = 0 THEN "returned" ELSE "angles",
               i |-> 0, angleAttempt |-> 0, drawn |-> 0, best |-> NoBest,
               evaluated |-> << >>, childPositions |-> << >>, handed |-> << >>]

\* children[i].id: the children of node 1 are the nodes 2, 3, ...
childIdAt(i) == i + 2

\* a loop that keeps the candidate it evaluated last
keepLatest(best, c) ==
  [found |-> TRUE, pos |-> c.pos, score |-> c.score, penalty |-> c.penalty]

\* if (score < bestScore) { bestScore = score; bestPosition = candidatePos }
keepBest(best, c) ==
  IF c.score < best.score
  THEN [found |-> TRUE, pos |-> c.pos, score |-> c.score, penalty |-> c.penalty]
  ELSE best

\* lines 366-405: one turn of the loop over the angle attempts
EvaluateCandidate ==
  /\ call.fn = "arrangeChildrenAroundParent"
  /\ call.at = "angles"
  /\ \E c \in { arrangeCandidate(call.parentPos, call.i, call.numChildren,
                                 childIdAt(call.i), call.existingPositions,
                                 call.childPositions, call.existingLines,
                                 arrangeRadius(call.parentPos, call.numChildren,
                                               call.baseRadius, call.minDistance),
                                 call.minDistance, call.parentNodeId, seed, call.drawn,
                                 call.angleAttempt) } :
       call' = [call EXCEPT
                  !.best = keepBest(@, c),
                  !.evaluated = Append(@, [pos |-> c.pos, score |-> c.score,
                                           angleVariation |-> call.angleAttempt * 6]),
                  !.angleAttempt = @ + 1,
                  !.at = IF c.penalty = 0 \/ call.angleAttempt + 1 >= angleAttempts
                         THEN "chosen" ELSE "angles"]
  /\ UNCHANGED restVars

\* lines 407-419: the best candidate goes through findSafePosition and the
\* result is pushed; then the next child, or the return of line 422
SearchBest ==
  /\ call.fn = "arrangeChildrenAroundParent"
  /\ call.at = "chosen"
  /\ \E safe \in { findSafePosition(call.parentPos, call.best.pos,
                                    call.existingPositions \o call.childPositions,
                                    call.existingLines, call.minDistance,
                                    childIdAt(call.i), call.parentNodeId, seed,
                                    call.drawn + 2 * call.angleAttempt) } :
       call' = [call EXCEPT
                  !.childPositions = IF call.best.found THEN Append(@, safe.pos) ELSE @,
                  !.handed = IF call.best.found THEN Append(@, call.best.pos) ELSE @,
                  !.drawn = IF call.best.found
                            THEN @ + 2 * call.angleAttempt + safe.examined - 1
                            ELSE @ + 2 * call.angleAttempt,
                  !.i = @ + 1,
                  !.angleAttempt = 0,
                  !.best = NoBest,
                  !.evaluated = << >>,
                  !.at = IF call.i + 1 < call.numChildren THEN "angles" ELSE "returned"]
  /\ UNCHANGED restVars

ArrangeNext == EvaluateCandidate \/ SearchBest

ArrangeSpec == ArrangeInit /\ [][ArrangeNext]_vars

\* doLinesIntersect called on its own on two segments of the x-y plane
NumSegments == 10

Segment(x1, y1, x2, y2) == [start |-> Pos(x1, y1, 0), end |-> Pos(x2, y2, 0)]

SegmentList ==
  << Segment(0, 0, 1000, 0),         \* ten units along x
     Segment(1200, -50, 1200, 50),   \* one unit long, two units beyond its end
     Segment(500, -100, 500, 100),   \* across its middle
     Segment(0, 100, 1000, 100),     \* parallel to it
     Segment(1030, -300, 1030, 300), \* 0.3 units beyond its end
     Segment(0, 0, 300, 400),
     Segment(-200, 300, 400, -100),
     Segment(1000, 0, 1000, 500),    \* from its end
     Segment(2000, 2000, 2100, 2100),
     Segment(0, 0, 1000, 1),         \* nearly parallel to the first
     Segment(-100, -100, -100, 500) >>

Segments == { SegmentList[i] : i \in 1..Min(NumSegments, Len(SegmentList)) }

IntersectInit ==
  /\ Resting
  /\ \E line1 \in Segments : \E line2 \in Segments :
       call = [fn |-> "doLinesIntersect", line1 |-> line1, line2 |-> line2,
               buffer |-> lineBuffer, at |-> "start", result |-> FALSE]

\* wouldLineIntersect, line 156: the call with the buffer 0.5
ApplyIntersect ==
  /\ call.fn = "doLinesIntersect"
  /\ call.at = "start"
  /\ call' = [call EXCEPT !.at = "returned",
                          !.result = doLinesIntersect(call.line1.start, call.line1.end,
                                                      call.line2.start, call.line2.end,
                                                      call.buffer)]
  /\ UNCHANGED restVars

IntersectNext == ApplyIntersect

IntersectSpec == IntersectInit /\ [][IntersectNext]_vars

\* cacheLayout, getCachedLayout and clearCache called on their own.  The cache
\* object is the sequence of its entries [key, timestamp] in the order of
\* Object.entries, the order in which the keys were first set.
MaxCalls == 12
MaxClock == 2
maxCacheSize == 10

keysOf(cache) == { cache[j].key : j \in 1..Len(cache) }

\* layoutCacheRef.current[key] = cachedLayout
setEntry(cache, key, timestamp) ==
  IF key \in keysOf(cache)
  THEN [j \in 1..Len(cache) |->
          IF cache[j].key = key THEN [key |-> key, timestamp |-> timestamp] ELSE cache[j]]
  ELSE Append(cache, [key |-> key, timestamp |-> timestamp])

\* cacheEntries.sort((a, b) => a[1].timestamp - b[1].timestamp): a stable sort
RECURSIVE sortByTimestamp(_)
sortByTimestamp(entries) ==
  IF entries = << >> THEN << >>
  ELSE LET Sorted(rest, e) ==
             LET before == SelectSeq(rest, LAMBDA r : r.timestamp <= e.timestamp)
                 after == SelectSeq(rest, LAMBDA r : r.timestamp > e.timestamp)
             IN  before \o << e >> \o after
       IN  Sorted(sortByTimestamp(SubSeq(entries, 1, Len(entries) - 1)),
                  entries[Len(entries)])

\* a slice that takes the entries from the end of the sorted list
sliceNewest(sorted) == SubSeq(sorted, maxCacheSize + 1, Len(sorted))

\* cacheEntries.slice(0, cacheEntries.length - maxCacheSize)
entriesToRemove(sorted) == SubSeq(sorted, 1, Len(sorted) - maxCacheSize)

\* delete layoutCacheRef.current[keyToRemove], for each entry to remove
deleteEntries(cache, removed) ==
  SelectSeq(cache, LAMBDA e : e.key \notin keysOf(removed))

\* the cache after cacheLayout(key, ...) at the time now
cacheAfterLayout(cache, key, now) ==
  LET Limited(written) ==
        IF Len(written) > maxCacheSize
        THEN deleteEntries(written, entriesToRemove(sortByTimestamp(written)))
        ELSE written
  IN  Limited(setEntry(cache, key, now))

\* the keys a call is made with: a key never used before, the key set first
\* among the entries, the key set last, or the key used by the call before
KeysToCall(c) ==
  {c.fresh}
  \cup (IF c.cache = << >> THEN {} ELSE {c.cache[1].key, c.cache[Len(c.cache)].key})
  \cup (IF c.key = 0 THEN {} ELSE {c.key})

CacheInit ==
  /\ Resting
  /\ call = [fn |-> "layoutCache", cache |-> << >>, now |-> 0, calls |-> 0, fresh |-> 1,
             op |-> "none", key |-> 0, before |-> << >>, found |-> FALSE]

\* Date.now() does not run backwards; several calls fall in one millisecond
CallCacheLayout ==
  /\ call.fn = "layoutCache"
  /\ call.calls < MaxCalls
  /\ \E key \in KeysToCall(call) : \E now \in call.now..Min(call.now + 1, MaxClock) :
       call' = [call EXCEPT !.cache = cacheAfterLayout(@, key, now),
                            !.now = now, !.calls = @ + 1,
                            !.fresh = IF key = @ THEN @ + 1 ELSE @,
                            !.op = "cacheLayout", !.key = key, !.before = call.cache,
                            !.found = FALSE]
  /\ UNCHANGED restVars

CallGetCachedLayout ==
  /\ call.fn = "layoutCache"
  /\ call.calls < MaxCalls
  /\ \E key \in KeysToCall(call) :
       call' = [call EXCEPT !.calls = @ + 1, !.op = "getCachedLayout", !.key = key,
                            !.before = call.cache, !.found = key \in keysOf(call.cache)]
  /\ UNCHANGED restVars

CallClearCache ==
  /\ call.fn = "layoutCache"
  /\ call.calls < MaxCalls
  /\ call.cache # << >>
  /\ call' = [call EXCEPT !.cache = << >>, !.calls = @ + 1, !.op = "clearCache",
                          !.before = call.cache, !.found = FALSE]
  /\ UNCHANGED restVars

CacheNext == CallCacheLayout \/ CallGetCachedLayout \/ CallClearCache

CacheSpec == CacheInit /\ [][CacheNext]_vars

\* The filter panel (ProtocolFilter) on the page: its handlers change the
\* criteria and call onToggleFilter when the filter has to change state.  The
\* layouts cached for different criteria are kept under one key per expansion
\* state.
NumProtocols == 2
MaxTermLen == 2

\* allProtocols: the protocols named by the node descriptions
allProtocols == 1..NumProtocols
allIncomeTypes == {"None", "Project", "Investors", "Creators"}

\* what can be typed into the search field: blanks and a letter
RECURSIVE TermsUpTo(_)
TermsUpTo(n) ==
  IF n = 0 THEN { << >> }
  ELSE TermsUpTo(n - 1)
       \cup { Append(s, c) : s \in { u \in TermsUpTo(n - 1) : Len(u) = n - 1 }, c \in {" ", "a"} }

SearchTerms == TermsUpTo(MaxTermLen)

RECURSIVE trimStart(_)
trimStart(s) == IF s # << >> /\ Head(s) = " " THEN trimStart(Tail(s)) ELSE s

RECURSIVE trimEnd(_)
trimEnd(s) ==
  IF s # << >> /\ s[Len(s)] = " " THEN trimEnd(SubSeq(s, 1, Len(s) - 1)) ELSE s

\* String.prototype.trim
trim(s) == trimEnd(trimStart(s))

\* a test of the search term that does not trim it
anyTermCounts(sel) ==
  sel.income # {} \/ sel.protocols # {} \/ Len(sel.searchTerm) > 0

\* newIncome.length > 0 || selectedProtocols.length > 0 || searchTerm.trim().length > 0
shouldBeActive(sel) ==
  sel.income # {} \/ sel.protocols # {} \/ Len(trim(sel.searchTerm)) > 0

\* includes(x) ? filter(...) : [...selected, x]
toggleSelected(selected, x) == IF x \in selected THEN selected \ {x} ELSE selected \cup {x}

\* the handler has passed the new criteria on; it calls onToggleFilter or not
FilterChanged(newSelection, toggle) ==
  /\ Idle
  /\ selection' = newSelection
  /\ IF toggle THEN onToggleFilter
     ELSE /\ Remember("select", CenterId)
          /\ UNCHANGED << kids, position, expanded, variant, isAllExpanded, isFilterActive,
                          needsRepositioning, layoutCache, passIdle, memory, call, focus,
                          pointer >>

HandleIncomeToggle ==
  \E incomeType \in allIncomeTypes :
    \E s \in { [selection EXCEPT !.income = toggleSelected(@, incomeType)] } :
      FilterChanged(s, shouldBeActive(s) # isFilterActive)

HandleProtocolToggle ==
  \E protocol \in allProtocols :
    \E s \in { [selection EXCEPT !.protocols = toggleSelected(@, protocol)] } :
      FilterChanged(s, shouldBeActive(s) # isFilterActive)

HandleSearchChange ==
  \E term \in SearchTerms :
    \E s \in { [selection EXCEPT !.searchTerm = term] } :
      FilterChanged(s, shouldBeActive(s) # isFilterActive)

HandleSelectAll ==
  \E s \in { [selection EXCEPT !.protocols = allProtocols, !.income = allIncomeTypes] } :
    FilterChanged(s, ~isFilterActive)

HandleClearAll ==
  /\ Idle
  /\ FilterChanged(NoSelection, isFilterActive)

FilterNext ==
  \/ HandleIncomeToggle
  \/ HandleProtocolToggle
  \/ HandleSearchChange
  \/ HandleSelectAll
  \/ HandleClearAll
  \/ HandleNodeClick
  \/ HandleExpandAll
  \/ RepositionEffect

FilterSpec == AppInit /\ [][FilterNext]_vars

\* The focus of page A: handleNodeDoubleClick with its deferred refocus,
\* handleBreadcrumbClick and handleOverviewClick.  focus.timers are the
\* callbacks passed to setTimeout(..., 0) that have not run yet, in order.
MaxTimers == 2

otherThanFocus ==
  << kids, position, expanded, input, allPositions, allLines, stack, seed, draws, last,
     pc, variant, isAllExpanded, isFilterActive, needsRepositioning, layoutCache,
     gestures, history, memory, call, selection, pointer >>

\* node.id + "_temp": an id that no node has
tempId(id) == -(id + 2)

\* the path of ids from the center to the target
RECURSIVE buildBreadcrumbPath(_, _)
buildBreadcrumbPath(k, targetNodeId) ==
  IF targetNodeId = CenterId THEN << CenterId >>
  ELSE Append(buildBreadcrumbPath(k, ParentOf(k, targetNodeId)), targetNodeId)

FocusInit == Resting /\ call = NoFunction

\* the first branch: the temporary id now, the node's id from a timer
refocusDeferred(f, id) ==
  [f EXCEPT !.focusedNodeId = tempId(id), !.timers = Append(@, id)]

HandleNodeDoubleClick ==
  \E node \in NodesOf(kids) :
    /\ focus' = IF focus.isZoomedIn /\ node = focus.focusedNodeId
                THEN refocusDeferred(focus, node)
                ELSE [focus EXCEPT !.focusedNodeId = node, !.isZoomedIn = TRUE,
                                   !.breadcrumbs = buildBreadcrumbPath(kids, node)]
    /\ Len(focus'.timers) <= MaxTimers
    /\ UNCHANGED otherThanFocus

\* the callback of setTimeout runs
RefocusTimer ==
  /\ focus.timers # << >>
  /\ focus' = [focus EXCEPT !.focusedNodeId = Head(focus.timers), !.timers = Tail(@)]
  /\ UNCHANGED otherThanFocus

\* a click on a breadcrumb other than the last one, which is disabled
HandleBreadcrumbClick ==
  \E index \in 1..(Len(focus.breadcrumbs) - 1) :
    /\ focus' = [focus EXCEPT !.focusedNodeId = focus.breadcrumbs[index],
                              !.isZoomedIn = TRUE,
                              !.breadcrumbs = SubSeq(@, 1, index)]
    /\ UNCHANGED otherThanFocus

HandleOverviewClick ==
  /\ focus' = [focus EXCEPT !.isZoomedIn = FALSE, !.focusedNodeId = CenterId]
  /\ UNCHANGED otherThanFocus

FocusNext ==
  \/ HandleNodeDoubleClick
  \/ RefocusTimer
  \/ HandleBreadcrumbClick
  \/ HandleOverviewClick

FocusSpec == FocusInit /\ [][FocusNext]_vars

(***************************************************************************)
(* Pointer gestures on a node sphere (AnimatedNodeSphere.tsx).  The refs   *)
(* of the component are the fields dragStarted, isDraggingRef,             *)
(* isShiftDraggingRef and startClient of pointer; the other fields record  *)
(* the gesture itself: whether the pointer is down, the button that went   *)
(* down, where it went down, whether it has ever been more than            *)
(* dragThreshold pixels from there with the button held, and the callbacks *)
(* invoked since the pointer went down, in order.                          *)
(* emptySpaceInteractionActive is false throughout: the gesture is on a    *)
(* node.                                                                   *)
(***************************************************************************)
MaxPointerGestures == 2

MaxMoves == 2

dragThreshold == 5

LeftButton == 0

Pixels == { 0, 3, 4, 6 }

ClientPoints == Pixels \X Pixels

Buttons == { LeftButton, 2 }

otherThanPointer ==
  << kids, position, expanded, input, allPositions, allLines, stack, seed, draws, last,
     pc, variant, isAllExpanded, isFilterActive, needsRepositioning, layoutCache,
     gestures, history, memory, call, selection, focus >>

PointerInit == Resting /\ call = NoFunction

(* distance > 5, compared on the squares so that no rounding of the root intervenes *)
beyondThreshold(from, to) ==
  (to[1] - from[1]) * (to[1] - from[1]) + (to[2] - from[2]) * (to[2] - from[2]) > dragThreshold * dragThreshold

(* handlePointerDown: a button other than the left one returns before any ref is written *)
HandlePointerDown ==
  /\ pointer.at = "up"
  /\ pointer.count < MaxPointerGestures
  /\ \E button \in Buttons, p \in ClientPoints :
       pointer' =
         IF button # LeftButton
         THEN [pointer EXCEPT !.at = "down", !.button = button, !.gestureStart = p,
                              !.exceeded = FALSE, !.moves = 0, !.count = @ + 1, !.calls = << >>]
         ELSE [pointer EXCEPT !.at = "down", !.button = button, !.gestureStart = p,
                              !.exceeded = FALSE, !.moves = 0, !.count = @ + 1, !.calls = << >>,
                              !.dragStarted = FALSE, !.isDraggingRef = FALSE,
                              !.isShiftDraggingRef = FALSE, !.startClient = p]
  /\ UNCHANGED otherThanPointer

(* the refs and the callbacks of one handlePointerMove with a button held *)
movedTo(ptr, p, shiftKey) ==
  LET starts  == ~ptr.dragStarted /\ beyondThreshold(ptr.startClient, p)
      started == [ptr EXCEPT !.dragStarted = @ \/ starts,
                             !.isDraggingRef = @ \/ starts,
                             !.isShiftDraggingRef = IF starts THEN shiftKey ELSE @,
                             !.calls = IF starts THEN Append(@, "onDragStart") ELSE @]
  IN  [started EXCEPT !.calls = IF started.isDraggingRef THEN Append(@, "onNodeDrag") ELSE @]

HandlePointerMove ==
  /\ pointer.at = "down"
  /\ pointer.moves < MaxMoves
  /\ \E p \in ClientPoints, shiftKey \in BOOLEAN :
       pointer' = [movedTo(pointer, p, shiftKey) EXCEPT
                     !.moves = @ + 1,
                     !.exceeded = @ \/ beyondThreshold(pointer.gestureStart, p)]
  /\ UNCHANGED otherThanPointer

(* handlePointerUp: onClick unless a drag started, the refs reset, onDragEnd *)
HandlePointerUp ==
  /\ pointer.at = "down"
  /\ pointer' = [pointer EXCEPT
                   !.at = "up",
                   !.calls = IF pointer.dragStarted
                             THEN Append(@, "onDragEnd")
                             ELSE Append(Append(@, "onClick"), "onDragEnd"),
                   !.dragStarted = FALSE, !.isDraggingRef = FALSE,
                   !.isShiftDraggingRef = FALSE]
  /\ UNCHANGED otherThanPointer

PointerNext ==
  \/ HandlePointerDown
  \/ HandlePointerMove
  \/ HandlePointerUp

PointerSpec == PointerInit /\ [][PointerNext]_vars

(***************************************************************************)
(* Properties of a pass                                                    *)
(***************************************************************************)
\* tolerance for the rounding of positions to 1/Scale of a world unit
Rounding == Scale \div 50

\* the pass reaches n: every ancestor of n below the center is expanded
Placed(n) == \A a \in AncestorsOf(kids, n) \ {CenterId} : expanded[a]

\* n is drawn: every ancestor of n, the center included, is expanded
Visible(n) == \A a \in AncestorsOf(kids, n) : expanded[a]

Adjacent(a, b) ==
  \/ (a # CenterId /\ ParentOf(kids, a) = b)
  \/ (b # CenterId /\ ParentOf(kids, b) = a)

\* the edges parent(a) -> a and parent(b) -> b share an endpoint
EdgesAdjacent(a, b) ==
  \/ a = b
  \/ ParentOf(kids, a) = b
  \/ ParentOf(kids, b) = a
  \/ ParentOf(kids, a) = ParentOf(kids, b)

\* C1: when the pass has completed, every node below the center that the pass
\* placed lies at least the generation gap (0.8) farther from the origin than
\* its parent, both taken at their final positions, up to rounding.
C1_MonotonicRadialGrowth ==
  pc = "done" =>
    \A n \in NodesOf(kids) \ {CenterId} :
      Placed(n) =>
        distanceFromCenter(position[n]) + Rounding
          >= distanceFromCenter(position[ParentOf(kids, n)]) + minGenerationGap

\* a completed pass over the fully expanded chain, its branch requested on the
\* side of the origin where the arranger's first angle points back to the origin
C1_Witness ==
  /\ pc = "done"
  /\ kids = shapeChain
  /\ \A n \in NodesOf(kids) : expanded[n]
  /\ input.position[1].x < 0
  /\ \A n \in 1..5 :
       distanceFromCenter(position[n]) > distanceFromCenter(position[n - 1])

\* the smallest separation any call of the pass asks for, glow buffer included
weakestEffectiveMinDistance == Min(deepMinDist, arrangeMinDist) + glowBuffer

\* C2: when the pass has completed (tree of depth <= 4 and fan-out <= 6), every
\* two visible nodes that are not parent and child are at least the effective
\* minimum distance apart, up to rounding.
C2_PairwiseSeparation ==
  pc = "done" =>
    \A a, b \in NodesOf(kids) :
      (a < b /\ Visible(a) /\ Visible(b) /\ ~Adjacent(a, b)) =>
        distance3D(position[a], position[b]) + Rounding >= weakestEffectiveMinDistance

\* C3: when the pass has completed (tree of depth <= 4 and fan-out <= 6), no
\* two edges of the visible tree that share no endpoint intersect in the x,y
\* projection within the buffer, the edges running between final positions.
C3_NonCrossingEdges ==
  pc = "done" =>
    \A a, b \in NodesOf(kids) \ {CenterId} :
      (a < b /\ Visible(a) /\ Visible(b) /\ ~EdgesAdjacent(a, b)) =>
        ~doLinesIntersect(position[ParentOf(kids, a)], position[a],
                          position[ParentOf(kids, b)], position[b], lineBuffer)

\* steps the pass spends on node n and below: its placement and, when it is
\* expanded, an arrangement and an assignment for each child and the child's steps
RECURSIVE StepsFor(_)
StepsFor(n) ==
  LET c == ChildrenOf(kids, n)
      RECURSIVE Sum(_)
      Sum(i) == IF i > Len(c) THEN 0 ELSE 2 + StepsFor(c[i]) + Sum(i + 1)
  IN  1 + (IF hasLayoutChildren(kids, expanded, n) THEN Sum(1) ELSE 0)

\* steps left to the call f of the stack, the calls above it not counted
StepsLeft(f) ==
  LET c == ChildrenOf(kids, f.node)
      RECURSIVE From(_, _)
      From(i, each) == IF i > Len(c) THEN 0 ELSE each + StepsFor(c[i]) + From(i + 1, each)
  IN  CASE f.phase = "forEachNode" -> From(f.i + 1, 1)
        [] f.phase = "place" -> StepsFor(f.node)
        [] f.phase = "arrange" -> (Len(c) - f.i) + From(1, 1)
        [] f.phase = "forEachChild" -> From(f.i + 1, 1)

\* steps left to the pass
RECURSIVE StepsLeftIn(_)
StepsLeftIn(st) == IF st = << >> THEN 0 ELSE StepsLeft(Top(st)) + StepsLeftIn(Pop(st))

\* C4: every call of findSafePosition returns a position after examining at
\* most 1 + 32 + 32 * 12 candidates, the fallback included, and the pass over
\* a finite tree terminates: it never throws, it is never left without a next
\* step before it is done, and every step takes one off the finite number of
\* steps left to it.
C4_TotalityAndTermination ==
  /\ [](/\ last.examined <= 1 + attempts + attempts * 12
        /\ last.pos \in [x : Int, y : Int, z : Int]
        /\ pc \in {"pass", "done"}
        /\ pc = "pass" => /\ stack # << >>
                          /\ Top(stack).phase \in {"forEachNode", "place", "arrange", "forEachChild"}
                          /\ StepsLeftIn(stack) > 0
        /\ pc = "done" => (stack = << >> /\ StepsLeftIn(stack) = 0))
  /\ [][StepsLeftIn(stack') = StepsLeftIn(stack) - 1]_vars

\* a call in which every sample collided or crossed and the fallback was returned
C4_Witness ==
  /\ last.via = 4
  /\ last.examined = 1 + attempts + attempts * 12

\* C5: a position returned by step 1, 2 or 3 of findSafePosition is at least
\* the effective minimum distance from every existing position, and its edge
\* from the parent crosses no existing edge that is not adjacent.
C5_SafeUnlessFallback ==
  last.via \in {1, 2, 3} =>
    /\ \A i \in 1..Len(last.existing) :
         distance3D(last.pos, last.existing[i]) >= last.minDistance + glowBuffer
    /\ \A i \in 1..Len(last.lines) :
         \/ last.lines[i].startNodeId \in {last.parentNodeId, last.node}
         \/ last.lines[i].endNodeId \in {last.parentNodeId, last.node}
         \/ ~doLinesIntersect(last.parentPos, last.pos,
                              last.lines[i].start, last.lines[i].end, lineBuffer)

\* a preferred position lying exactly on an existing node was moved by a sample
C5_Witness ==
  /\ last.via \in {2, 3}
  /\ \E i \in 1..Len(last.existing) :
       /\ last.existing[i] = last.preferred
       /\ distance3D(last.pos, last.existing[i]) >= last.minDistance + glowBuffer

\* C6: the arranger returns one position per child, in the order of the
\* children, and the pass assigns the i-th of them to the i-th child: no child
\* is assigned an undefined position.
C6_EveryChildPlaced ==
  /\ pc # "error"
  /\ \A j \in 1..Len(stack) :
       /\ stack[j].phase = "forEachChild"
            => Len(stack[j].childPositions) = Len(ChildrenOf(kids, stack[j].node))
       /\ (j > 1 /\ stack[j].phase = "place" /\ stack[j - 1].phase = "forEachChild")
            => /\ stack[j].node = ChildrenOf(kids, stack[j - 1].node)[stack[j - 1].i]
               /\ position[stack[j].node] = stack[j - 1].childPositions[stack[j - 1].i]

\* the second of two children has been assigned the second position, and the
\* call that places it is about to run
C6_Witness ==
  /\ kids = shapeBranches
  /\ Len(stack) > 1
  /\ Top(stack).phase = "place"
  /\ Top(stack).node = 6
  /\ stack[Len(stack) - 1].phase = "forEachChild"
  /\ Len(stack[Len(stack) - 1].childPositions) = 2
  /\ position[6] = stack[Len(stack) - 1].childPositions[2]
  /\ position[6] # input.position[6]

\* n has an ancestor that is collapsed, among the given ancestors
UnderCollapsed(n, among) == \E a \in AncestorsOf(kids, n) \cap among : ~expanded[a]

Skipped(n) ==
  /\ position[n] = input.position[n]
  /\ \A i \in 1..Len(allPositions) : allPositions[i].owner # n
  /\ \A i \in 1..Len(allLines) : allLines[i].endNodeId # n

C8_OnlyPositionsChange ==
  /\ kids = input.kids
  /\ expanded = input.expanded
  /\ DOMAIN position = DOMAIN input.position
  /\ position[CenterId] = input.position[CenterId]

\* a completed pass that moved a node
C8_Witness ==
  /\ pc = "done"
  /\ \E n \in NodesOf(kids) \ {CenterId} : position[n] # input.position[n]

(***************************************************************************)
(* Properties of the page component                                        *)
(***************************************************************************)
\* C9: after a click that collapsed a node and a second click on the same
\* node, no other handler and no pass having run in between, every node has
\* the stored position it had before the first click, and every expanded
\* flag, the node's own included, is as it was.
C9_CollapseExpandIdempotent ==
  (history.op = "click" /\ history.count = 2 /\ history.before.expanded[history.node]) =>
    /\ position = history.before.position
    /\ expanded = history.before.expanded

\* a branch with a child, laid out by a pass, was collapsed and expanded again
C9_Witness ==
  /\ history.op = "click"
  /\ history.count = 2
  /\ history.node # CenterId
  /\ Len(ChildrenOf(kids, history.node)) > 0
  /\ history.before.expanded[history.node]
  /\ expanded[history.node]
  /\ position # freshPosition

\* C10: right after Collapse All (handleExpandAll while isAllExpanded), every
\* node, the center included, has the stored position it had right before it.
C10_CollapseAllKeepsPositions ==
  history.op = "collapseAll" => position = history.before.position

\* the nodes below d in the tree, at any depth
DescendantsOf(d) == { m \in NodesOf(kids) : m # d /\ d \in AncestorsOf(kids, m) }

Shifted(p, from, to) ==
  Pos(p.x + (to.x - from.x), p.y + (to.y - from.y), p.z + (to.z - from.z))

\* the step is a drag of node d that moved it
DragOf(d) ==
  /\ gestures' = gestures + 1
  /\ history'.op = "drag"
  /\ history'.node = d
  /\ position'[d] # position[d]

\* what C11 requires of a drag of d: the subtree below d follows by the same
\* delta, the nodes outside it stay, and no pass runs
Cascaded(d) ==
  /\ \A m \in DescendantsOf(d) : position'[m] = Shifted(position[m], position[d], position'[d])
  /\ \A m \in NodesOf(kids) \ (DescendantsOf(d) \cup {d}) : position'[m] = position[m]
  /\ UNCHANGED << expanded, needsRepositioning, passIdle >>

\* C11: a drag that moves node d from p to q shifts every descendant of d, at
\* any depth and whatever the expanded flags, by q - p, leaves every node
\* outside the subtree of d where it was, and runs no reposition pass.
C11_DragCascade ==
  [][\A d \in NodesOf(kids) : DragOf(d) => Cascaded(d)]_vars

\* calculateAbsolutePosition: the parent's absolute position plus node.position
calculateAbsolutePosition(nodePosition, parentAbsolutePosition) ==
  Pos(parentAbsolutePosition.x + nodePosition.x,
      parentAbsolutePosition.y + nodePosition.y,
      parentAbsolutePosition.z + nodePosition.z)

\* getNodeAbsolutePosition: the stored positions of n and of its ancestors up to
\* the root, added up
RECURSIVE getNodeAbsolutePosition(_, _, _)
getNodeAbsolutePosition(k, pos, n) ==
  IF n = CenterId THEN pos[n]
  ELSE calculateAbsolutePosition(pos[n], getNodeAbsolutePosition(k, pos, ParentOf(k, n)))

\* the point at which the pass placed n: the entry of n pushed last to the
\* accumulated positions, which share their frame with the root's position
RECURSIVE LastEntryOf(_, _, _)
LastEntryOf(acc, n, i) ==
  IF i = 0 THEN Origin
  ELSE IF acc[i].owner = n THEN acc[i].pos
  ELSE LastEntryOf(acc, n, i - 1)

PlacedAt(n) == LastEntryOf(allPositions, n, Len(allPositions))

HasEntry(n) == \E i \in 1..Len(allPositions) : allPositions[i].owner = n

NoSharing ==
  /\ \A key \in CacheKeys : objectsOf(memory.state) \cap objectsOf(memory.cache[key]) = {}
  /\ \A key \in CacheKeys : \A other \in CacheKeys \ {key} :
       objectsOf(memory.cache[key]) \cap objectsOf(memory.cache[other]) = {}

\* an object held by the state or by the cache before a handler has the same
\* content after it, unless nothing holds it any more
Unmutated ==
  \A r \in heldBy(memory) :
    \/ memory'.heap[r] = memory.heap[r]
    \/ r \notin heldBy(memory') /\ memory'.heap[r] = NoLayout

\* the handlers that call cacheLayout with the key, or clearCache
WritesCache(op, key) ==
  \/ op = "reset"
  \/ op \in {"expandAll", "filter"} /\ key = generateCacheKey(TRUE)
  \/ op = "collapseAll" /\ key = generateCacheKey(FALSE)
  \/ /\ variant = "B"
     /\ op \in {"click", "drag", "reposition"}
     /\ key = generateCacheKey(isAllExpanded)

CacheChangedOnlyByWrite ==
  \A key \in CacheKeys :
    (memory'.cache[key] # memory.cache[key] \/ layoutCache'[key] # layoutCache[key])
      => WritesCache(history'.op, key)

\* C14: a reposition made by Expand All, by Reset or by the filter effect never
\* writes into the tree the state holds nor into a cached tree; a cached
\* layout changes only in a handler that calls cacheLayout with its key or
\* clearCache; the tree getCachedLayout returns has no object in common with
\* the cached one, so that a write into it leaves the cached layout as it was
C14_ValueSemantics == []NoSharing /\ [][Unmutated /\ CacheChangedOnlyByWrite]_vars

\* Expand All has computed a layout with a pass, and the state and the cache
\* hold it in different objects
C14_Witness ==
  /\ history.op = "expandAll"
  /\ position # history.before.position
  /\ memory.cache[generateCacheKey(TRUE)] # NoTree
  /\ content(memory.heap, memory.cache[generateCacheKey(TRUE)]) = Layout(position, expanded)
  /\ objectsOf(memory.state) \cap objectsOf(memory.cache[generateCacheKey(TRUE)]) = {}

(***************************************************************************)
(* Properties of the order of placement                                    *)
(***************************************************************************)
\* the entries of allPositions pushed for node n
EntriesOf(n) == { i \in 1..Len(allPositions) : allPositions[i].owner = n }

\* C15: an entry of allPositions is the position its node holds, during the
\* rest of the pass and at its end, and no node has two entries
C15_GreedyWithoutBacktracking ==
  \A n \in NodesOf(kids) :
    /\ Cardinality(EntriesOf(n)) <= 1
    /\ \A i \in EntriesOf(n) : allPositions[i].pos = position[n]

\* the edges of allLines that end at node n
EdgesTo(n) == { i \in 1..Len(allLines) : allLines[i].endNodeId = n }

\* the latest call of findSafePosition had the position of the parent of its
\* node as parent endpoint
SearchedFromParent ==
  last.node # NoId => last.parentPos = position[ParentOf(kids, last.node)]

\* C16: the position search of a node below the center runs with the position
\* of its parent as parent endpoint, and a placed node has exactly one edge in
\* allLines, from the position of its parent to its own, labelled with the
\* two ids
C16_PlacedRelativeToParent ==
  /\ SearchedFromParent
  /\ \A n \in NodesOf(kids) \ {CenterId} :
       /\ Cardinality(EdgesTo(n)) <= 1
       /\ (pc = "done" /\ HasEntry(n)) => Cardinality(EdgesTo(n)) = 1
       /\ \A i \in EdgesTo(n) :
            /\ allLines[i].start = position[ParentOf(kids, n)]
            /\ allLines[i].end = position[n]
            /\ allLines[i].startNodeId = ParentOf(kids, n)

(***************************************************************************)
(* Properties of the position search                                       *)
(***************************************************************************)
\* the preferred position of the latest call after the hierarchical correction
LastCorrected == enforceHierarchicalDistance(last.preferred, last.parentPos, minGenerationGap)

\* noCollision && noIntersection of the latest call for the position p
LastSafe(p) ==
  IsSafe(last.parentPos, p, last.existing, last.lines, last.minDistance + glowBuffer,
         last.parentNodeId, last.node)

\* the preferred position of the latest call keeps the generation gap
LastKeepsGap ==
  distanceFromCenter(last.preferred) >= distanceFromCenter(last.parentPos) + minGenerationGap

\* C17: a call of findSafePosition whose corrected preferred position collides
\* with nothing and crosses no edge returns exactly that position, which is
\* the preferred position itself when it keeps the generation gap, and reads
\* no jitter
C17_SafeRequestPreserved ==
  (last.node # NoId /\ LastSafe(LastCorrected)) =>
     /\ last.pos = LastCorrected
     /\ last.via = 1
     /\ last.examined = 1
     /\ LastKeepsGap => last.pos = last.preferred

\* a safe request that needed the correction, after one that needed none
C17_Witness ==
  /\ last.node # NoId
  /\ LastSafe(LastCorrected)
  /\ ~LastKeepsGap
  /\ last.pos # last.preferred
  /\ \E i \in 1..Len(allPositions) :
        allPositions[i].owner # CenterId /\ allPositions[i].pos = input.position[allPositions[i].owner]

(***************************************************************************)
(* Properties of the hierarchical correction                               *)
(***************************************************************************)
\* p and q differ by no more than the rounding of positions
Near(p, q) ==
  /\ Abs(p.x - q.x) <= Rounding
  /\ Abs(p.y - q.y) <= Rounding
  /\ Abs(p.z - q.z) <= Rounding

\* d is the distance of p from the origin, up to the rounding of positions
AtDistance(p, d) ==
  /\ p.x * p.x + p.y * p.y + p.z * p.z >= (d - Rounding) * (d - Rounding)
  /\ p.x * p.x + p.y * p.y + p.z * p.z <= (d + Rounding) * (d + Rounding)

\* p lies on the ray from the origin in the direction dir: p is dir scaled by
\* |p| / |dir|, up to the rounding of positions
OnRay(p, dir) ==
  /\ dir # Origin
  /\ dir.x * p.x + dir.y * p.y + dir.z * p.z > 0
  /\ Near(Pos(RDiv(dir.x * distanceFromCenter(p), distanceFromCenter(dir)),
              RDiv(dir.y * distanceFromCenter(p), distanceFromCenter(dir)),
              RDiv(dir.z * distanceFromCenter(p), distanceFromCenter(dir))), p)

\* the direction the claim names for a candidate that is too near
RayOf(candidatePos, parentPos) ==
  IF candidatePos # Origin THEN candidatePos
  ELSE IF parentPos # candidatePos
  THEN Pos(candidatePos.x - parentPos.x, candidatePos.y - parentPos.y,
           candidatePos.z - parentPos.z)
  ELSE Pos(1, 0, 0)

EnforcedOnce == call.fn = "enforceHierarchicalDistance" /\ Len(call.results) >= 1

FarEnough ==
  distanceFromCenter(call.candidatePos)
    >= distanceFromCenter(call.parentPos) + minGenerationGap

\* C18: enforceHierarchicalDistance returns a candidate that keeps the gap as
\* it is; any other it moves onto the ray from the origin through the
\* candidate (from the parent to the candidate when the candidate is the
\* origin, (1,0,0) when the parent is the origin too) at the distance of the
\* parent plus the gap; applied to its own result it returns that result
C18_HierarchicalCorrection ==
  EnforcedOnce =>
    /\ FarEnough => call.results[1] = call.candidatePos
    /\ ~FarEnough =>
         /\ AtDistance(call.results[1],
                       distanceFromCenter(call.parentPos) + minGenerationGap)
         /\ OnRay(call.results[1], RayOf(call.candidatePos, call.parentPos))
    /\ Len(call.results) >= 2 => Near(call.results[2], call.results[1])

\* a candidate at the origin has been moved away from a parent that is not, and
\* the correction has been applied to the result
C18_Witness ==
  /\ EnforcedOnce
  /\ Len(call.results) = 2
  /\ call.candidatePos = Origin
  /\ call.parentPos # Origin
  /\ call.results[1] # call.candidatePos

(***************************************************************************)
(* Properties of the fallback and of the radii of the search               *)
(***************************************************************************)
\* the point at the given distance from p in the direction of q, or in the
\* direction (1,0,0) when q is p
Towards(p, q, reach) ==
  LET Along(length) ==
        IF length = 0 THEN Pos(p.x + reach, p.y, p.z)
        ELSE Pos(p.x + RDiv((q.x - p.x) * reach, length),
                 p.y + RDiv((q.y - p.y) * reach, length),
                 p.z + RDiv((q.z - p.z) * reach, length))
  IN  Along(distance3D(p, q))

\* C19: when no candidate passes, the position before the last correction is
\* the point on the line from the parent through the corrected preferred
\* position at baseDistance + 2 * effectiveMinDistance from the parent,
\* whatever components of the direction are zero
C19_FallbackAlongDirection ==
  (call.fn = "findSafePosition" /\ call.at = "returnedFallback") =>
     /\ Near(call.testPos.pos,
             Towards(call.parentPos, call.hierarchicalPos,
                     call.baseDistance + 2 * (call.minDistance + glowBuffer)))
     /\ call.result = enforceHierarchicalDistance(call.testPos.pos, call.parentPos,
                                                  minGenerationGap)

\* the search has left step 1: it samples, or has sampled, around the parent
Sampling == call.fn = "findSafePosition" /\ call.radii # << >>

\* the distance from the parent to the corrected preferred position
CorrectedDistance == distance3D(call.parentPos, call.hierarchicalPos)

\* the candidate lies at its radius from the parent, seen along z
AtRadius(candidate, parentPos) ==
  /\ (candidate.pos.x - parentPos.x) * (candidate.pos.x - parentPos.x)
     + (candidate.pos.y - parentPos.y) * (candidate.pos.y - parentPos.y)
       >= (candidate.radius - Rounding) * (candidate.radius - Rounding)
  /\ (candidate.pos.x - parentPos.x) * (candidate.pos.x - parentPos.x)
     + (candidate.pos.y - parentPos.y) * (candidate.pos.y - parentPos.y)
       <= (candidate.radius + Rounding) * (candidate.radius + Rounding)

\* every sample so far was generated at the latest radius of the search
SampledAtRadii ==
  (call.testPos # NoCandidate /\ call.at \in {"samples", "growth", "returned"}) =>
     /\ \E j \in 1..Len(call.radii) : call.testPos.radius = call.radii[j]
     /\ AtRadius(call.testPos, call.parentPos)

\* C20 (as stated): the first radius of the samples is the distance from the
\* parent to the corrected preferred position, every later radius is the one
\* before plus 0.3, and no radius lies outside [base, base + 4.0]
C20_RadiiFromCorrectedDistance ==
  Sampling =>
    /\ call.radii[1] = CorrectedDistance
    /\ \A j \in 2..Len(call.radii) : call.radii[j] = call.radii[j - 1] + growthStep
    /\ \A j \in 1..Len(call.radii) :
         call.radii[j] >= CorrectedDistance /\ call.radii[j] <= CorrectedDistance + growthLimit
    /\ SampledAtRadii

\* C20 (amended): the first radius is the larger of that distance and
\* effectiveMinDistance, the second is 0.5 beyond it, every later radius is the
\* one before plus 0.3, and every radius is below the first plus 4.0
C20_RadiiFromBaseDistance ==
  Sampling =>
    /\ call.radii[1] = Max(CorrectedDistance, call.minDistance + glowBuffer)
    /\ Len(call.radii) >= 2 => call.radii[2] = call.radii[1] + growthStart
    /\ \A j \in 3..Len(call.radii) : call.radii[j] = call.radii[j - 1] + growthStep
    /\ \A j \in 1..Len(call.radii) :
         call.radii[j] >= call.radii[1] /\ call.radii[j] < call.radii[1] + growthLimit
    /\ SampledAtRadii

\* a search that went through every radius, from a base radius larger than
\* the distance to the corrected preferred position
C20_Witness ==
  /\ Sampling
  /\ call.at = "returnedFallback"
  /\ Len(call.radii) = 1 + grownRadii
  /\ call.radii[1] > CorrectedDistance

\* the candidate collides with an existing position or with an earlier sibling
CandidateCollides(c) ==
  \E p \in { call.existingPositions[j] : j \in 1..Len(call.existingPositions) }
           \cup { call.childPositions[j] : j \in 1..Len(call.childPositions) } :
    distance3D(c.pos, p) < call.minDistance + glowBuffer

\* the edge from the parent to the candidate crosses an edge that is not adjacent
CandidateCrosses(c) ==
  \E j \in 1..Len(call.existingLines) :
    /\ call.existingLines[j].startNodeId \notin {call.parentNodeId, childIdAt(call.i)}
    /\ call.existingLines[j].endNodeId \notin {call.parentNodeId, childIdAt(call.i)}
    /\ doLinesIntersect(call.parentPos, c.pos, call.existingLines[j].start,
                        call.existingLines[j].end, lineBuffer)

CandidatePenalty(c) ==
  (IF CandidateCollides(c) THEN collisionPenalty ELSE 0)
  + (IF CandidateCrosses(c) THEN intersectionPenalty ELSE 0)

\* the whole loop over the angle attempts of the current child, in one go
WholeLoop ==
  bestCandidate(call.parentPos, call.i, call.numChildren, childIdAt(call.i),
                call.existingPositions, call.childPositions, call.existingLines,
                arrangeRadius(call.parentPos, call.numChildren, call.baseRadius,
                              call.minDistance),
                call.minDistance, call.parentNodeId, seed, call.drawn)

\* C21: for each child the arranger evaluates at most 16 candidates in order of
\* increasing angular offset; the score of a candidate is 1000 if it collides
\* with an existing or earlier-sibling position, plus 2000 if its edge crosses
\* an existing edge, plus a tie-break that grows with the offset; the loop
\* stops at the first candidate without penalty; the candidate handed to the
\* position search has the least score, so it is free of collision and of
\* crossing whenever an evaluated candidate is, and it does not cross when an
\* evaluated candidate only collides.
C21_CandidateSelection ==
  (call.fn = "arrangeChildrenAroundParent" /\ call.at \in {"angles", "chosen"}) =>
    LET ev == call.evaluated
        Chosen(c) == c.pos = call.best.pos /\ c.score = call.best.score
    IN  /\ Len(ev) <= angleAttempts
        /\ Len(ev) = call.angleAttempt
        /\ \A a \in 1..Len(ev) :
             /\ ev[a].angleVariation = (a - 1) * 6
             /\ ev[a].score = CandidatePenalty(ev[a]) * Milli + (a - 1) * TieBreak
             /\ a < Len(ev) => CandidatePenalty(ev[a]) # 0
             /\ a > 1 => ev[a].score - CandidatePenalty(ev[a]) * Milli
                           > ev[a - 1].score - CandidatePenalty(ev[a - 1]) * Milli
        /\ call.at = "angles" => Len(ev) < angleAttempts
        /\ call.at = "chosen" =>
             /\ Len(ev) = angleAttempts \/ CandidatePenalty(ev[Len(ev)]) = 0
             /\ call.best.found
             /\ \E a \in 1..Len(ev) : Chosen(ev[a])
             /\ \A a \in 1..Len(ev) : call.best.score <= ev[a].score
             /\ (\E a \in 1..Len(ev) : CandidatePenalty(ev[a]) = 0)
                  => \E a \in 1..Len(ev) : Chosen(ev[a]) /\ CandidatePenalty(ev[a]) = 0
             /\ (\E a \in 1..Len(ev) : CandidatePenalty(ev[a]) = collisionPenalty)
                  => \E a \in 1..Len(ev) : Chosen(ev[a]) /\ ~CandidateCrosses(ev[a])
             /\ call.best.pos = WholeLoop.pos
             /\ call.angleAttempt = WholeLoop.tried

\* all 16 candidates of a child were evaluated, the first one crosses an edge
\* without colliding, and a later one that only collides was chosen
C21_Witness ==
  /\ call.fn = "arrangeChildrenAroundParent"
  /\ call.at = "chosen"
  /\ Len(call.evaluated) = angleAttempts
  /\ CandidatePenalty(call.evaluated[1]) = intersectionPenalty
  /\ call.best.penalty = collisionPenalty
  /\ call.best.pos # call.evaluated[1].pos

\* level of a node in the pass: 0 for a top-level branch
LevelOf(n) == DepthOf(kids, n) - 1

\* C22 (as stated): every call of findSafePosition made in a pass has
\* minDistance 2.8 for a top-level branch and 1.4 + 0.15 * level for a node at
\* a deeper level.
C22_DepthScaledSeparation ==
  (last # NoCall /\ last.node # CenterId) =>
    last.minDistance = IF LevelOf(last.node) = 0 THEN topLevelMinDist
                       ELSE deepMinDist + arrangeMinDistPerLevel * LevelOf(last.node)

\* C22 (amended): the call that places a node has minDistance 2.8 for a
\* top-level branch and 1.4 for every deeper node, whatever its level; the
\* call made by the arranger for a child has minDistance 1.3 + 0.15 * level of
\* the parent, that is 1.3 + 0.15 * (level - 1) for a child at that level:
\* only the arranger's separation grows with depth.
C22_SeparationByCaller ==
  [][/\ Running("place") =>
          /\ last'.node = Top(stack).node
          /\ last'.minDistance = IF LevelOf(last'.node) = 0 THEN topLevelMinDist
                                 ELSE deepMinDist
     /\ (Running("arrange") /\ last' # last) =>
          /\ ParentOf(kids, last'.node) = Top(stack).node
          /\ LevelOf(last'.node) >= 1
          /\ last'.minDistance = arrangeMinDist
                                 + arrangeMinDistPerLevel * (LevelOf(last'.node) - 1)]_vars

\* a node at level 3 was arranged with minDistance 1.6 and is now being placed
\* with 1.4
C22_Witness ==
  /\ last # NoCall
  /\ LevelOf(last.node) = 3
  /\ last.minDistance = deepMinDist
  /\ Running("arrange")
  /\ arrangeMinDist + arrangeMinDistPerLevel * 2 = 160

\* the ids supplied to the call
SuppliedTo == {call.currentNodeId, call.parentNodeId} \ {NoId}

\* the edge starts or ends at the candidate node or at its parent
AdjacentEdge(line) == line.startNodeId \in SuppliedTo \/ line.endNodeId \in SuppliedTo

\* C23: in every call of the intersection check made by findSafePosition, an
\* existing edge whose start or end node id is the candidate node's id or its
\* parent's id is left out of the test, whatever its geometry and whichever of
\* the two ids are supplied: the check reports a crossing only if an edge that
\* is not adjacent crosses.
C23_AdjacentEdgesExcluded ==
  (call.fn = "findSafePosition" /\ call.at # "start") =>
    (wouldLineIntersect(call.parentPos, call.hierarchicalPos, call.existingLines,
                        call.parentNodeId, call.currentNodeId)
       => \E j \in 1..Len(call.existingLines) :
            /\ ~AdjacentEdge(call.existingLines[j])
            /\ doLinesIntersect(call.parentPos, call.hierarchicalPos,
                                call.existingLines[j].start, call.existingLines[j].end,
                                lineBuffer))

\* length of the x,y projection of a segment
LengthOf(line) ==
  Sqrt((line.end.x - line.start.x) * (line.end.x - line.start.x)
       + (line.end.y - line.start.y) * (line.end.y - line.start.y))

DetOf(l1, l2) ==
  (l1.end.x - l1.start.x) * (l2.end.y - l2.start.y)
  - (l2.end.x - l2.start.x) * (l1.end.y - l1.start.y)

\* the parameter of the crossing point on the first segment, times det
LambdaTimesDet(l1, l2) ==
  (l2.end.y - l2.start.y) * (l2.end.x - l1.start.x)
  + (l2.start.x - l2.end.x) * (l2.end.y - l1.start.y)

\* the parameter of the crossing point on the second segment, times det
GammaTimesDet(l1, l2) ==
  (l1.start.y - l1.end.y) * (l2.end.x - l1.start.x)
  + (l1.end.x - l1.start.x) * (l2.end.y - l1.start.y)

\* t = num / det lies in [-buffer / len, 1 + buffer / len]
WithinMargin(num, det, len) ==
  LET n == IF det < 0 THEN -num ELSE num
      d == Abs(det)
  IN  /\ n * len >= -(call.buffer * d)
      /\ n * len <= d * len + call.buffer * d

IntersectsWithMarginOver(len) ==
  LET det == DetOf(call.line1, call.line2)
  IN  /\ Abs(det) >= detEpsilon
      /\ WithinMargin(LambdaTimesDet(call.line1, call.line2), det, len)
      /\ WithinMargin(GammaTimesDet(call.line1, call.line2), det, len)

\* C24: the intersection test reports a crossing exactly when the determinant
\* is at least 1e-4 in absolute value and both parameters lie in [-m, 1 + m],
\* the margin m being the buffer (0.5 world units) divided by the length of
\* the shorter of the two segments' x,y projections.
C24_BufferedIntersection ==
  (call.fn = "doLinesIntersect" /\ call.at = "returned") =>
    call.result = IntersectsWithMarginOver(Min(LengthOf(call.line1), LengthOf(call.line2)))

\* the entries that the last call removed from the cache
EvictedBy(c) == { c.before[j] : j \in 1..Len(c.before) } \ { c.cache[j] : j \in 1..Len(c.cache) }

\* C25: after any sequence of cacheLayout, getCachedLayout and clearCache
\* calls (with a clock that does not run backwards) the cache holds at most 10
\* entries; an insertion that would exceed 10 evicts entries with the oldest
\* timestamps, and the entry just inserted is still present.
C25_BoundedCache ==
  call.fn = "layoutCache" =>
    /\ Len(call.cache) <= maxCacheSize
    /\ Cardinality(keysOf(call.cache)) = Len(call.cache)
    /\ call.op = "cacheLayout" =>
         /\ \E j \in 1..Len(call.cache) :
              call.cache[j] = [key |-> call.key, timestamp |-> call.now]
         /\ \A e \in EvictedBy(call) :
              e.key = call.key \/ \A j \in 1..Len(call.cache) :
                                     e.timestamp <= call.cache[j].timestamp
         /\ (call.key \notin keysOf(call.before) /\ Len(call.before) = maxCacheSize)
              <=> (\E e \in EvictedBy(call) : e.key # call.key)
         /\ Len(call.cache) = Min(maxCacheSize, Cardinality(keysOf(call.before) \cup {call.key}))
    /\ call.op = "getCachedLayout" =>
         /\ call.cache = call.before
         /\ call.found <=> call.key \in keysOf(call.cache)
    /\ call.op = "clearCache" => call.cache = << >>

\* an eleventh key was inserted in the same millisecond as the entry evicted
\* for it, and is present
C25_Witness ==
  /\ call.fn = "layoutCache"
  /\ call.op = "cacheLayout"
  /\ Len(call.before) = maxCacheSize
  /\ Len(call.cache) = maxCacheSize
  /\ call.key \in keysOf(call.cache)
  /\ \E e \in EvictedBy(call) : e.key # call.key /\ e.timestamp = call.now

\* C26: whenever Expand All or the activation of the filter sets isAllExpanded
\* to true, every node below the center of the tree then displayed is
\* expanded, whether the layout was computed or served from the layout cache.
C26_ExpandAllExpandsEverything ==
  [][(~isAllExpanded /\ isAllExpanded')
       => \A n \in NodesOf(kids) \ {CenterId} : expanded'[n]]_vars

\* C27: right after handleResetLayout the tree has the initial structure,
\* every expanded flag is the one the node had before the reset, the positions
\* are those of one pass over the positions of createInitialNetworkState
\* (whatever was dragged before), and the layout cache is empty.
C27_ResetLayout ==
  history.op = "reset" =>
    /\ kids = appShape
    /\ expanded = history.before.expanded
    /\ \E sd \in Seeds :
         position = repositionNodesWithCollisionDetection(
                      appShape, freshPosition, history.before.expanded, sd)
    /\ layoutCache = EmptyCache
    /\ \A key \in CacheKeys : memory.cache[key] = NoTree

\* a reset of a tree in which node 1 was expanded and node 2 had been dragged
\* from its initial position
C27_Witness ==
  /\ history.op = "reset"
  /\ expanded[1]
  /\ history.before.position[2]
       = Pos(freshPosition[2].x + 100, freshPosition[2].y, freshPosition[2].z)
  /\ position[2] # history.before.position[2]
  /\ position[3] # freshPosition[3]

\* a protocol or an income type is selected, or the search term is not blank
CriterionSet ==
  \/ selection.protocols # {}
  \/ selection.income # {}
  \/ \E j \in 1..Len(selection.searchTerm) : selection.searchTerm[j] # " "

\* C28: after any sequence of protocol toggles, income toggles, search edits,
\* Select All and Clear All, the filter is active exactly when a criterion is
\* set; a step that deactivates the filter changes no position and no expanded
\* flag.
C28_FilterFlagConsistent ==
  /\ [](isFilterActive <=> CriterionSet)
  /\ [][(isFilterActive /\ ~isFilterActive')
          => /\ position' = position
             /\ expanded' = expanded
             /\ ~needsRepositioning']_vars

\* the filter was deactivated by blanking the search term, on a tree that a
\* pass had laid out with every node expanded
C28_Witness ==
  /\ ~isFilterActive
  /\ history.op = "filter"
  /\ selection.searchTerm # << >>
  /\ isAllExpanded
  /\ \A n \in NodesOf(kids) : expanded[n]
  /\ position # freshPosition

\* C29: in every reachable state, between a double-click on the focused node
\* and the run of its timer included, a page that is not zoomed in has the
\* center as its focused node, and a page that is zoomed in has as its focused
\* node an existing node, the one of the last breadcrumb.
C29_FocusConsistent ==
  /\ ~focus.isZoomedIn => focus.focusedNodeId = CenterId
  /\ focus.isZoomedIn =>
       /\ focus.focusedNodeId \in NodesOf(kids)
       /\ focus.focusedNodeId = focus.breadcrumbs[Len(focus.breadcrumbs)]

(***************************************************************************)
(* C30                                                                     *)
(***************************************************************************)
Invoked(name) == { i \in 1..Len(pointer.calls) : pointer.calls[i] = name }

GestureOver == pointer.at = "up" /\ pointer.count > 0

ClickIffNeverBeyond == GestureOver => ((Invoked("onClick") # {}) <=> ~pointer.exceeded)

ClickAtPointerUp == \A i \in Invoked("onClick") : GestureOver /\ i = Len(pointer.calls) - 1

DragStartOnceAfterThreshold == Cardinality(Invoked("onDragStart")) <= 1 /\ (Invoked("onDragStart") # {} => pointer.exceeded)

DragAfterDragStart == \A i \in Invoked("onNodeDrag") : \E j \in Invoked("onDragStart") : j < i

DragEndAfterDragStart == \A i \in Invoked("onDragEnd") : \E j \in Invoked("onDragStart") : j < i

(* C30: within one pointer gesture on a node, onClick is invoked at        *)
(* pointer-up if and only if the pointer never moved more than 5 pixels    *)
(* from its start while a button was held; onDragStart is invoked at most  *)
(* once and only after that threshold is exceeded; onNodeDrag is never     *)
(* invoked before onDragStart; and every onDragEnd is preceded in the same *)
(* gesture by an onDragStart.                                              *)
C30_ClickVersusDrag ==
  /\ ClickIffNeverBeyond
  /\ ClickAtPointerUp
  /\ DragStartOnceAfterThreshold
  /\ DragAfterDragStart
  /\ DragEndAfterDragStart

====
